---- MODULE Spec2Model ----
(***************************************************************************)
(* A model of the chat planner of AIChatPlayers: the Planner with its      *)
(* cooldown memory and lock (internal/planner/planner.go), the delegation  *)
(* step (internal/planner/llm.go), the heuristics (detectTopics,           *)
(* generateResponse, shouldAvoidTopic), the text helpers and the seeded    *)
(* random source (internal/util).                                          *)
(*                                                                         *)
(* Go strings that the code lower-cases, compares or searches are tuples   *)
(* of one-character strings, so that those operations are computed.        *)
(* Probabilities are in tenths (0.6 is 6, 1.0 is 10).                      *)
(***************************************************************************)
EXTENDS Integers, Sequences, FiniteSets, TLC

VARIABLES
    memory,     \* Planner.memory: (server, bot id, topic) -> last sent time-ms
    registry,   \* Planner.registry: (server, bot id) -> registered profile
    mu,         \* Planner.mu: 0 when free, else the holder (a Plan invocation,
                \* or RegCaller for RegisterBots)
    llmKind,    \* the generator handed to NewPlanner
    family,     \* the family of requests this run draws its inputs from
    inv,        \* the Plan invocations: position, locals and response
    reg,        \* the RegisterBots call: position and locals
    iolog,      \* what was logged while the lock was held, and by whom
    cfg,        \* main: the environment, what config.Load made of it, and the
                \* LLMTimeout handed to NewPlanner
    srv,        \* main: the llama server at the configured url, its state file,
                \* the process EnsureServerReady spawned and what it returned
    es          \* logging.ElasticLogger: the queue, the worker and Close

vars == <<memory, registry, mu, llmKind, family, inv, reg, iolog, cfg, srv, es>>

-----------------------------------------------------------------------------
(* Bounds *)

\* Plan invocations in one run
MaxRequests == 2

-----------------------------------------------------------------------------
(* strings *)

UpperChars == <<"A","B","C","D","E","F","G","H","I","J","K","L","M",
                "N","O","P","Q","R","S","T","U","V","W","X","Y","Z",
                "L_STROKE">>
LowerChars == <<"a","b","c","d","e","f","g","h","i","j","k","l","m",
                "n","o","p","q","r","s","t","u","v","w","x","y","z",
                "l_stroke">>

\* the characters of several bytes in UTF-8: the Polish letters, the capital
\* I with a dot (U+0130), the dashes and the replacement character U+FFFD
WideChars ==
    {"L_STROKE", "l_stroke", "a_ogonek", "e_ogonek", "o_acute", "s_acute",
     "z_acute", "z_dot", "c_acute", "n_acute", "I_DOT", "em_dash", "en_dash", "fffd"}

\* utf8.RuneLen
Width(c) ==
    IF c \in {"em_dash", "en_dash", "fffd"} THEN 3
    ELSE IF c \in WideChars THEN 2
    ELSE 1

\* the k-th byte of a character of several bytes, and all such bytes
ByteOf(c, k) == c \o "#" \o ToString(k)

LoneBytes == {ByteOf(c, k) : c \in WideChars, k \in 1..3}

\* strings.ToLower on one character; U+0130 becomes the one-byte "i", and a
\* byte that is no character becomes U+FFFD
LowerChar(c) ==
    IF \E i \in 1..Len(UpperChars) : UpperChars[i] = c
    THEN LowerChars[CHOOSE i \in 1..Len(UpperChars) : UpperChars[i] = c]
    ELSE IF c = "I_DOT" THEN "i"
    ELSE IF c \in LoneBytes THEN "fffd"
    ELSE c

ToLower(s) == [i \in 1..Len(s) |-> LowerChar(s[i])]

\* strings.EqualFold; U+0130 folds to itself only
EqualFold(a, b) ==
    /\ Len(a) = Len(b)
    /\ \A i \in 1..Len(a) :
          \/ a[i] = b[i]
          \/ LowerChar(a[i]) = LowerChar(b[i]) /\ "I_DOT" \notin {a[i], b[i]}

\* the bytes of a string, and the string a run of bytes is read as
RECURSIVE Bytes(_)
Bytes(s) ==
    IF s = << >> THEN << >>
    ELSE (IF Width(s[1]) = 1 THEN <<s[1]>>
          ELSE [k \in 1..Width(s[1]) |-> ByteOf(s[1], k)]) \o Bytes(Tail(s))

RECURSIVE Runes(_)
Runes(b) ==
    IF b = << >> THEN << >>
    ELSE LET whole == {c \in WideChars :
                          /\ Len(b) >= Width(c)
                          /\ SubSeq(b, 1, Width(c)) = Bytes(<<c>>)}
         IN  IF whole = {} THEN <<b[1]>> \o Runes(Tail(b))
             ELSE LET c == CHOOSE c \in whole : TRUE
                  IN  <<c>> \o Runes(SubSeq(b, Width(c) + 1, Len(b)))

\* strings.Contains
Contains(s, sub) ==
    \E i \in 0..(Len(s) - Len(sub)) :
        \A j \in 1..Len(sub) : s[i + j] = sub[j]

\* strings.HasPrefix
HasPrefix(s, p) ==
    /\ Len(p) <= Len(s)
    /\ \A j \in 1..Len(p) : s[j] = p[j]

\* the Polish letters NormalizeText folds, each with its replacement
Diacritics == <<
    <<"l_stroke", "l">>, <<"a_ogonek", "a">>, <<"e_ogonek", "e">>,
    <<"s_acute", "s">>, <<"c_acute", "c">>, <<"n_acute", "n">>,
    <<"o_acute", "o">>, <<"z_dot", "z">>, <<"z_acute", "z">> >>

FoldChar(c) ==
    IF \E i \in 1..Len(Diacritics) : Diacritics[i][1] = c
    THEN (Diacritics[CHOOSE i \in 1..Len(Diacritics) : Diacritics[i][1] = c])[2]
    ELSE c

\* util.NormalizeText: lower-case, then fold the diacritics
NormalizeText(input) ==
    LET lower == ToLower(input)
    IN  [i \in 1..Len(lower) |-> FoldChar(lower[i])]

\* util.ContainsAny
ContainsAny(input, keywords) ==
    \E k \in 1..Len(keywords) : Contains(input, keywords[k])

-----------------------------------------------------------------------------
(* topics *)

greetingKeywords == << <<"s","i","e","m","a">>, <<"h","e","j">>,
                       <<"c","z","e","s","c">>, <<"e","l","o">>,
                       <<"y","o">>, <<"w","i","t","a","m">> >>
pvpKeywords      == << <<"k","t","o"," ","p","v","p">>, <<"p","v","p">>,
                       <<"k","l","e","p","a","c">>, <<"1","v","1">>,
                       <<"d","u","e","l">>,
                       <<"p","o","j","e","d","y","n","e","k">> >>
eventKeywords    == << <<"e","v","e","n","t">>, <<"s","t","a","r","t">>,
                       <<"d","r","o","p">>, <<"t","u","r","n","i","e","j">>,
                       <<"b","o","s","s">> >>
helpKeywords     == << <<"j","a","k">>, <<"g","d","z","i","e">>,
                       <<"c","o"," ","r","o","b","i","c">>,
                       <<"p","o","m","o","c">>, <<"h","e","l","p">> >>
toxicKeywords    == << <<"k","u","r","w","a">>, <<"c","h","u","j">>,
                       <<"c","h","u","j","o","w","y">>,
                       <<"j","e","b","a","c">>, <<"i","d","i","o","t","a">> >>

TopicGreeting  == "greeting"
TopicPVPInvite == "pvp_invite"
TopicEvent     == "event"
TopicHelp      == "help"
TopicToxic     == "toxic"
\* the empty Topic, which the small-talk path passes
TopicNone      == ""

Topics == {TopicGreeting, TopicPVPInvite, TopicEvent, TopicHelp, TopicToxic}

\* string(topic), as characters
TopicChars(topic) ==
    CASE topic = TopicGreeting  -> <<"g","r","e","e","t","i","n","g">>
      [] topic = TopicPVPInvite -> <<"p","v","p","_","i","n","v","i","t","e">>
      [] topic = TopicEvent     -> <<"e","v","e","n","t">>
      [] topic = TopicHelp      -> <<"h","e","l","p">>
      [] topic = TopicToxic     -> <<"t","o","x","i","c">>
      [] OTHER                  -> << >>

maxRecentMessages == 10

\* detectTopics looking at the whole chat
RecentWindowWhole(messages) == messages

\* the recent window of detectTopics
RecentWindow(messages) ==
    IF Len(messages) > maxRecentMessages
    THEN SubSeq(messages, Len(messages) - maxRecentMessages + 1, Len(messages))
    ELSE messages

\* the switch of detectTopics: the one topic a message counts for, or TopicNone
ClassifyMessage(message) ==
    LET text == NormalizeText(message.Message)
    IN  CASE ContainsAny(text, toxicKeywords)    -> TopicToxic
          [] ContainsAny(text, eventKeywords)    -> TopicEvent
          [] ContainsAny(text, pvpKeywords)      -> TopicPVPInvite
          [] ContainsAny(text, helpKeywords)     -> TopicHelp
          [] ContainsAny(text, greetingKeywords) -> TopicGreeting
          [] OTHER                               -> TopicNone

\* topicCounts of detectTopics
TopicCount(messages, topic) ==
    LET recent == RecentWindow(messages)
    IN  Cardinality({i \in 1..Len(recent) : ClassifyMessage(recent[i]) = topic})

\* The sequences detectTopics can return.  The topics with a count are
\* appended in the iteration order of a Go map, which the runtime randomises,
\* and sort.SliceStable by count descending keeps that order among equal
\* counts: every arrangement with non-increasing counts can come out.
detectTopics(messages) ==
    LET hit == {t \in Topics : TopicCount(messages, t) > 0}
        n   == Cardinality(hit)
    IN  {ordered \in [1..n -> hit] :
            /\ \A i, j \in 1..n : i # j => ordered[i] # ordered[j]
            /\ \A i, j \in 1..n : i < j =>
                 TopicCount(messages, ordered[i]) >= TopicCount(messages, ordered[j])}

\* containsTopic looking at the leading topic only
containsTopicLeading(topics, target) ==
    Len(topics) > 0 /\ topics[1] = target

containsTopic(topics, target) ==
    \E i \in 1..Len(topics) : topics[i] = target

-----------------------------------------------------------------------------
(* the seeded random source *)

DigitChars == <<"0","1","2","3","4","5","6","7","8","9">>

RECURSIVE DecimalDigits(_)
DecimalDigits(k) ==
    IF k < 10 THEN <<DigitChars[k + 1]>>
    ELSE DecimalDigits(k \div 10) \o <<DigitChars[(k % 10) + 1]>>

\* fmt.Sprint of an int64
Sprint(k) == IF k < 0 THEN <<"-">> \o DecimalDigits(-k) ELSE DecimalDigits(k)

\* the byte of an ASCII character
Ord(c) ==
    CASE \E i \in 1..10 : DigitChars[i] = c ->
            47 + (CHOOSE i \in 1..10 : DigitChars[i] = c)
      [] \E i \in 1..26 : LowerChars[i] = c ->
            96 + (CHOOSE i \in 1..26 : LowerChars[i] = c)
      [] \E i \in 1..26 : UpperChars[i] = c ->
            64 + (CHOOSE i \in 1..26 : UpperChars[i] = c)
      [] c = "-" -> 45
      [] OTHER -> 63

RECURSIVE BitXor(_, _)
BitXor(a, b) ==
    IF a = 0 THEN b
    ELSE IF b = 0 THEN a
    ELSE (((a % 2) + (b % 2)) % 2) + 2 * BitXor(a \div 2, b \div 2)

\* the width the hash is kept at: the low 16 bits of the 64-bit FNV-1a sum
\* (xor and multiplication both commute with dropping the high bits)
HashMod == 2^16

RECURSIVE FnvWrite(_, _)
FnvWrite(h, bytes) ==
    IF bytes = << >> THEN h
    ELSE FnvWrite((BitXor(h, Ord(Head(bytes))) * 435) % HashMod, Tail(bytes))

RECURSIVE ConcatAll(_)
ConcatAll(inputs) ==
    IF inputs = << >> THEN << >> ELSE Head(inputs) \o ConcatAll(Tail(inputs))

\* util.NewSeededRand: FNV-1a over the inputs written one after the other, from
\* the offset basis (low bits 8997) with the FNV prime (low bits 435).  The
\* result stands for the seeded *rand.Rand.
NewSeededRand(seedInputs) == FnvWrite(8997, ConcatAll(seedInputs))

\* The n-th value of the stream of a source seeded with seed (n = 0, 1, ...):
\* a fixed function of the seed and the position, as with math/rand.
Raw(seed, n) ==
    (((seed % 4093) * (2 * n + 3) * 31) + (n * n * 131) + (seed \div 16)) % 65521

\* rng.Float64(), in tenths: a value of 0..9 stands for [0, 1)
Float64(seed, n) == Raw(seed, n) % 10

\* rng.Intn(k) and rng.Int63n(k)
Intn(seed, n, k) == Raw(seed, n) % k

\* rng.Perm(k): m[i] = m[j]; m[j] = i with j = Intn(i + 1), for i = 0..k-1;
\* it takes k values of the stream, from position n
RECURSIVE PermFrom(_, _, _, _, _)
PermFrom(m, i, k, seed, n) ==
    IF i >= k THEN m
    ELSE LET j  == Intn(seed, n + i, i + 1)
             m1 == [m EXCEPT ![i + 1] = m[j + 1]]
             m2 == [m1 EXCEPT ![j + 1] = i]
         IN  PermFrom(m2, i + 1, k, seed, n)

Perm(k, seed, n) == PermFrom([i \in 1..k |-> 0], 0, k, seed, n)

-----------------------------------------------------------------------------
(* Plan: the steps before buildPlan *)

\* the filter without the online test
BotAvailableOffline(bot) == ~(bot.CooldownMS > 0)

BotAvailable(bot) == bot.Online /\ ~(bot.CooldownMS > 0)

filterAvailableBots(bots) == SelectSeq(bots, BotAvailable)

\* latestChatMessage by list position: the last message of the list
latestChatMessageByPosition(messages) ==
    Len(messages)

\* the index latestChatMessage returns a pointer to (0 for nil)
latestChatMessage(messages) ==
    IF Len(messages) = 0 THEN 0
    ELSE CHOOSE i \in 1..Len(messages) :
            /\ \A j \in 1..Len(messages) :
                 messages[j].TimestampMS <= messages[i].TimestampMS
            /\ \A j \in (i + 1)..Len(messages) :
                 messages[j].TimestampMS < messages[i].TimestampMS

isSameSender(bot, message) ==
    \/ bot.BotID # << >> /\ EqualFold(message.Sender, bot.BotID)
    \/ bot.Name # << >> /\ EqualFold(message.Sender, bot.Name)

filterSelfReplyBots(req, bots) ==
    LET last == latestChatMessage(req.Chat)
    IN  IF last = 0 THEN bots
        ELSE IF ~EqualFold(req.Chat[last].SenderType, <<"B","O","T">>) THEN bots
        ELSE LET Keep(bot) == ~isSameSender(bot, req.Chat[last])
             IN  SelectSeq(bots, Keep)

\* normalizeSettings keeping a max delay equal to the min delay
normalizeSettingsStrict(settings) ==
    LET s1 == IF settings.MaxActions <= 0
              THEN [settings EXCEPT !.MaxActions = 2] ELSE settings
        s2 == IF s1.MinDelayMS <= 0 THEN [s1 EXCEPT !.MinDelayMS = 800] ELSE s1
        s3 == IF s2.MaxDelayMS < s2.MinDelayMS
              THEN [s2 EXCEPT !.MaxDelayMS = s2.MinDelayMS + 1200] ELSE s2
        s4 == IF s3.ReplyChance <= 0 THEN [s3 EXCEPT !.ReplyChance = 6] ELSE s3
        s5 == IF s4.GlobalSilenceChance < 0
              THEN [s4 EXCEPT !.GlobalSilenceChance = 0] ELSE s4
        s6 == IF s5.GlobalSilenceChance > 10
              THEN [s5 EXCEPT !.GlobalSilenceChance = 10] ELSE s5
    IN  s6

normalizeSettings(settings) ==
    LET s1 == IF settings.MaxActions <= 0
              THEN [settings EXCEPT !.MaxActions = 2] ELSE settings
        s2 == IF s1.MinDelayMS <= 0 THEN [s1 EXCEPT !.MinDelayMS = 800] ELSE s1
        s3 == IF s2.MaxDelayMS <= s2.MinDelayMS
              THEN [s2 EXCEPT !.MaxDelayMS = s2.MinDelayMS + 1200] ELSE s2
        s4 == IF s3.ReplyChance <= 0 THEN [s3 EXCEPT !.ReplyChance = 6] ELSE s3
        s5 == IF s4.GlobalSilenceChance < 0
              THEN [s4 EXCEPT !.GlobalSilenceChance = 0] ELSE s4
        s6 == IF s5.GlobalSilenceChance > 10
              THEN [s5 EXCEPT !.GlobalSilenceChance = 10] ELSE s5
    IN  s6

\* pickBots: the selected bots and the position of the stream afterwards
pickBots(bots, max, seed, n) ==
    IF Len(bots) <= max THEN [sel |-> bots, n |-> n]
    ELSE LET indices == Perm(Len(bots), seed, n)
         IN  [sel |-> [i \in 1..max |-> bots[indices[i] + 1]],
              n   |-> n + Len(bots)]

\* randomDelay drawing below max-delay instead of below the span
randomDelayWide(settings, seed, n) ==
    LET span == settings.MaxDelayMS - settings.MinDelayMS
    IN  IF span <= 0 THEN [delay |-> settings.MinDelayMS, n |-> n]
        ELSE [delay |-> settings.MinDelayMS + Intn(seed, n, settings.MaxDelayMS + 1),
              n     |-> n + 1]

\* randomDelay: the delay and the position of the stream afterwards
randomDelay(settings, seed, n) ==
    LET span == settings.MaxDelayMS - settings.MinDelayMS
    IN  IF span <= 0 THEN [delay |-> settings.MinDelayMS, n |-> n]
        ELSE [delay |-> settings.MinDelayMS + Intn(seed, n, span + 1),
              n     |-> n + 1]

-----------------------------------------------------------------------------
(* heuristics *)

\* The template tables.  A message is a tuple of words, the empty tuple being
\* the empty string.
greetingTemplates   == << <<"siema">>, <<"hej", "wszystkim">> >>
pvpNeutralTemplates == << <<"moze", "pozniej">>, <<"dzis", "bez", "pvp">> >>
eventTemplates      == << <<"kiedy", "start">>, <<"ide", "na", "event">> >>
helpTemplates       == << <<"zapytaj", "na", "spawnie">>, <<"wpisz", "help">> >>
smallTalkTemplates  == << <<"co", "tam", "u", "was", "slychac">>, <<"nuda", "dzis">> >>
newbieAddOns        == << <<"chyba">>, <<"nie", "wiem">> >>
friendlyEmojis      == << <<":)">>, <<":D">> >>

\* pickTemplate: the template and the position of the stream afterwards
pickTemplate(templates, seed, n) ==
    IF Len(templates) = 0 THEN [t |-> << >>, n |-> n]
    ELSE [t |-> templates[Intn(seed, n, Len(templates)) + 1], n |-> n + 1]

\* prefixNewbie: prefix + ", " + message unless the message starts with it
prefixNewbie(level, seed, n, message) ==
    IF level # <<"n","e","w","b","i","e">> \/ message = << >>
    THEN [t |-> message, n |-> n]
    ELSE LET p == pickTemplate(newbieAddOns, seed, n)
         IN  IF HasPrefix(message, p.t) THEN [t |-> message, n |-> p.n]
             ELSE [t |-> p.t \o <<",">> \o message, n |-> p.n]

\* emojiSuffix: " " + emoji for the friendly and casual tones
emojiSuffix(tone, seed, n) ==
    IF tone = <<"f","r","i","e","n","d","l","y">> \/ tone = <<"c","a","s","u","a","l">>
    THEN pickTemplate(friendlyEmojis, seed, n)
    ELSE [t |-> << >>, n |-> n]

\* shorten: the first three words
shorten(message) == IF Len(message) <= 3 THEN message ELSE SubSeq(message, 1, 3)

\* strings.Join(tags, ",")
RECURSIVE Join(_)
Join(tags) ==
    IF tags = << >> THEN << >>
    ELSE IF Len(tags) = 1 THEN tags[1]
    ELSE tags[1] \o <<",">> \o Join(Tail(tags))

\* shouldAvoidTopic without the lower-casing of the entry
shouldAvoidTopicCased(topic, avoid) ==
    IF topic = TopicNone THEN FALSE
    ELSE \E k \in 1..Len(avoid) :
            LET item == avoid[k]
            IN  \/ EqualFold(item, TopicChars(topic))
                \/ Contains(item, <<"p","v","p">>) /\ topic = TopicPVPInvite
                \/ Contains(item, <<"e","v","e","n","t">>) /\ topic = TopicEvent

shouldAvoidTopic(topic, avoid) ==
    IF topic = TopicNone THEN FALSE
    ELSE \E k \in 1..Len(avoid) :
            LET item       == avoid[k]
                normalized == ToLower(item)
            IN  \/ EqualFold(item, TopicChars(topic))
                \/ Contains(normalized, <<"p","v","p">>) /\ topic = TopicPVPInvite
                \/ Contains(normalized, <<"e","v","e","n","t">>) /\ topic = TopicEvent

\* generateResponse: the message, the reason and the position of the stream
\* afterwards; the draws are taken in the order Go evaluates the calls
generateResponse(topic, bot, seed, n) ==
    IF shouldAvoidTopic(topic, bot.Persona.AvoidTopics)
    THEN [msg |-> << >>, reason |-> "", n |-> n]
    ELSE
    LET tone      == ToLower(bot.Persona.Tone)
        styleTags == Join(bot.Persona.StyleTags)
        knowledge == ToLower(bot.Persona.KnowledgeLevel)
    IN  CASE topic = TopicGreeting ->
               LET a == pickTemplate(greetingTemplates, seed, n)
                   b == prefixNewbie(knowledge, seed, a.n, a.t)
                   c == emojiSuffix(tone, seed, b.n)
               IN  [msg |-> b.t \o c.t, reason |-> "greeting", n |-> c.n]
          [] topic = TopicPVPInvite ->
               LET a == pickTemplate(pvpNeutralTemplates, seed, n)
                   c == emojiSuffix(tone, seed, a.n)
               IN  [msg |-> a.t \o c.t, reason |-> "avoid_real_pvp", n |-> c.n]
          [] topic = TopicEvent ->
               LET a == pickTemplate(eventTemplates, seed, n)
               IN  [msg |-> a.t, reason |-> "react_to_event", n |-> a.n]
          [] topic = TopicHelp ->
               LET a == pickTemplate(helpTemplates, seed, n)
                   b == prefixNewbie(knowledge, seed, a.n, a.t)
               IN  [msg |-> b.t, reason |-> "helpful_hint", n |-> b.n]
          [] topic = TopicNone ->
               LET a == pickTemplate(smallTalkTemplates, seed, n)
                   m == IF Contains(styleTags, <<"s","h","o","r","t">>)
                        THEN shorten(a.t) ELSE a.t
                   b == prefixNewbie(knowledge, seed, a.n, m)
                   c == emojiSuffix(tone, seed, b.n)
               IN  [msg |-> b.t \o c.t, reason |-> "small_talk", n |-> c.n]
          [] OTHER -> [msg |-> << >>, reason |-> "", n |-> n]

-----------------------------------------------------------------------------
(* the cooldown memory *)

topicCooldownMS == 15000

\* the server id taken as it comes
ServerKeyRaw(serverID) == serverID

\* serverID, with "" standing for "default"
ServerKey(serverID) == IF serverID = "" THEN "default" ELSE serverID

\* shouldSuppress with the window of the earlier planner, 60 seconds
shouldSuppressMinute(mem, serverID, botID, topic, nowMS) ==
    IF botID = << >> THEN TRUE
    ELSE LET key == <<ServerKey(serverID), botID, topic>>
         IN  /\ key \in DOMAIN mem
             /\ nowMS - mem[key] < 60000

\* shouldSuppress, on the memory mem
shouldSuppress(mem, serverID, botID, topic, nowMS) ==
    IF botID = << >> THEN TRUE
    ELSE LET key == <<ServerKey(serverID), botID, topic>>
         IN  /\ key \in DOMAIN mem
             /\ nowMS - mem[key] < topicCooldownMS

\* remember: the memory after the write
remember(mem, serverID, botID, topic, nowMS) ==
    LET key == <<ServerKey(serverID), botID, topic>>
    IN  [k \in (DOMAIN mem) \cup {key} |-> IF k = key THEN nowMS ELSE mem[k]]

\* strategyLabel asking for the attempt before the use
strategyLabelAttemptFirst(base, llmAttempted, llmUsed) ==
    IF llmAttempted THEN base \o "_fallback"
    ELSE IF llmUsed THEN "llm"
    ELSE base

\* strategyLabel without the fallback suffix
strategyLabelPlain(base, llmAttempted, llmUsed) ==
    IF llmUsed THEN "llm" ELSE base

strategyLabel(base, llmAttempted, llmUsed) ==
    IF llmUsed THEN "llm"
    ELSE IF llmAttempted THEN base \o "_fallback"
    ELSE base

-----------------------------------------------------------------------------
(* the inputs *)

Persona(tone, styleTags, avoidTopics, knowledgeLevel) ==
    [Tone |-> tone, StyleTags |-> styleTags, AvoidTopics |-> avoidTopics,
     KnowledgeLevel |-> knowledgeLevel]

BotProfile(botID, name, online, cooldownMS, persona) ==
    [BotID |-> botID, Name |-> name, Online |-> online,
     CooldownMS |-> cooldownMS, Persona |-> persona]

ChatMessage(ts, sender, senderType, message) ==
    [TimestampMS |-> ts, Sender |-> sender, SenderType |-> senderType,
     Message |-> message]

PlanSettings(maxActions, minDelay, maxDelay, silence, reply) ==
    [MaxActions |-> maxActions, MinDelayMS |-> minDelay, MaxDelayMS |-> maxDelay,
     GlobalSilenceChance |-> silence, ReplyChance |-> reply]

PlanRequest(requestID, serverID, tick, timeMS, bots, chat, settings) ==
    [RequestID |-> requestID, Server |-> [ServerID |-> serverID], Tick |-> tick,
     TimeMS |-> timeMS, Bots |-> bots, Chat |-> chat, Settings |-> settings]

Casual  == <<"c","a","s","u","a","l">>
Serious == <<"s","e","r","i","o","u","s">>
Newbie  == <<"N","e","w","b","i","e">>
Average == <<"a","v","e","r","a","g","e">>
Short   == <<"s","h","o","r","t">>
Player  == <<"P","L","A","Y","E","R">>
BotType == <<"b","o","t">>
Steve   == <<"S","t","e","v","e">>

\* bot-1 of the planner tests: casual, short, avoids "payments"
Kuba == BotProfile(<<"b","1">>, <<"K","u","b","a">>, TRUE, 0,
            Persona(Casual, <<Short>>, << <<"p","a","y","m","e","n","t","s">> >>, Average))
\* a newbie that avoids "No_PvP" and "EVENTS"
Ola  == BotProfile(<<"b","2">>, <<"O","l","a">>, TRUE, 0,
            Persona(Serious, << >>,
                    << <<"N","o","_","P","v","P">>, <<"E","V","E","N","T","S">> >>, Newbie))
\* avoids the greeting topic by its name
Zed  == BotProfile(<<"b","3">>, <<"Z","e","d">>, TRUE, 0,
            Persona(Serious, << >>, << <<"G","r","e","e","t","i","n","g">> >>, Average))
\* online = false, which is also what a request without the flag decodes to
Offline == BotProfile(<<"b","4">>, <<"O","f","f">>, FALSE, 0,
            Persona(Casual, << >>, << >>, Average))
Cooling == BotProfile(<<"b","5">>, <<"C","o","o","l">>, TRUE, 500,
            Persona(Casual, << >>, << >>, Average))
\* a profile without a bot id
Anon == BotProfile(<< >>, <<"A","n","o","n">>, TRUE, 0,
            Persona(Casual, << >>, << >>, Average))

Siema  == <<"s","i","e","m","a">>
HejPvp == <<"h","e","j"," ","k","t","o"," ","P","V","P","?">>
Jak    == <<"J","a","k"," ","t","o","?">>
Kurwa  == <<"K","U","R","W","A">>
Lol    == <<"l","o","l">>
Event  == <<"b","o","s","s"," ","e","v","e","n","t">>

ChatGreeting == << ChatMessage(100, Steve, Player, Siema) >>
ChatPvp      == << ChatMessage(100, Steve, Player, HejPvp) >>
ChatTie      == << ChatMessage(100, Steve, Player, Siema),
                   ChatMessage(101, Steve, Player, Jak) >>
ChatToxic    == << ChatMessage(100, Steve, Player, Kurwa),
                   ChatMessage(101, Steve, Player, Siema) >>
ChatHelp     == << ChatMessage(100, Steve, Player, Jak) >>
ChatIdle     == << ChatMessage(100, Steve, Player, Lol) >>
ChatEvent    == << ChatMessage(100, Steve, Player, Event),
                   ChatMessage(101, Steve, Player, HejPvp) >>
\* the latest message (ts 300) is Kuba's own and comes first in the list
ChatSelfFirst == << ChatMessage(300, <<"k","u","b","a">>, BotType, Siema),
                    ChatMessage(200, Steve, Player, Siema) >>
\* the latest message is b2's own, by bot id
ChatSelfId    == << ChatMessage(200, Steve, Player, Siema),
                    ChatMessage(300, <<"B","2">>, BotType, Siema) >>
\* two messages share the greatest timestamp; the bot's one comes first
ChatSelfTie   == << ChatMessage(300, <<"K","U","B","A">>, BotType, Siema),
                    ChatMessage(300, Steve, Player, Siema) >>
\* the latest message is a bot's and names no sender
ChatSelfEmpty == << ChatMessage(200, Steve, Player, Siema),
                    ChatMessage(300, << >>, BotType, Siema) >>

\* eleven messages: the first is toxic, the last ten hold two greetings and a
\* question
ChatLong == [k \in 1..11 |->
                ChatMessage(100 + k, Steve, Player,
                            IF k = 1 THEN Kurwa
                            ELSE IF k \in {2, 11} THEN Siema
                            ELSE IF k = 5 THEN Jak
                            ELSE Lol)]

SettingsUnset  == PlanSettings(0, 0, 0, 0, 0)
SettingsOne    == PlanSettings(1, 10, 20, 0, 10)
SettingsTwo    == PlanSettings(2, 10, 12, 0, 10)
SettingsOdd    == PlanSettings(-1, 50, 50, 15, -3)
SettingsSilent == PlanSettings(3, 5, 4, 10, 10)
SettingsHalf   == PlanSettings(1, 10, 20, 5, 5)

R1 == <<"r","1">>
R2 == <<"r","-","2">>

Families == {"cooldown", "tie", "avoid", "toxic", "selfreply", "settings", "scenario",
             "window", "servers", "slots"}

\* the requests of a family
RequestPool(f) ==
    CASE f = "cooldown" ->
           {PlanRequest(R1, "s1", 7, t, <<Kuba>>, ChatGreeting, SettingsOne) :
                t \in {0, 14999, 15000}}
      [] f = "tie" ->
           {PlanRequest(R1, "", 7, 0, <<Kuba>>, ChatTie, SettingsOne)}
      [] f = "avoid" ->
           {PlanRequest(R2, "", 7, 0, <<Ola, Kuba>>, ChatPvp, SettingsTwo),
            PlanRequest(R1, "", 7, 0, <<Zed, Ola, Kuba>>, ChatEvent, SettingsOne)}
      [] f = "toxic" ->
           {PlanRequest(R1, "s1", 7, 0, <<Kuba, Ola>>, ChatToxic, SettingsTwo),
            PlanRequest(R1, "s1", 7, 0, <<Offline, Cooling>>, ChatToxic, SettingsTwo),
            PlanRequest(R2, "s1", 7, 0, <<Offline, Kuba, Anon>>, ChatGreeting, SettingsTwo),
            PlanRequest(R2, "s1", 7, 0, <<Offline>>, ChatPvp, SettingsOne)}
      [] f = "selfreply" ->
           {PlanRequest(R1, "s1", 7, 0, <<Kuba, Ola>>, chat, SettingsOne) :
                chat \in {ChatSelfFirst, ChatSelfId, ChatSelfTie}}
           \cup {PlanRequest(R1, "s1", 7, 0, <<Anon, Kuba>>, ChatSelfEmpty, SettingsOne)}
      [] f = "settings" ->
           {PlanRequest(R1, "default", 11, 3, <<Kuba, Ola, Zed>>, ChatHelp, SettingsUnset),
            PlanRequest(R2, "default", 16, 3, <<Kuba, Ola, Zed>>, ChatHelp, SettingsOdd),
            PlanRequest(R1, "default", 12, 3, <<Kuba, Ola>>, ChatIdle, SettingsHalf),
            PlanRequest(R2, "default", 12, 3, <<Kuba, Ola>>, << >>, SettingsSilent)}
      [] f = "scenario" ->
           {PlanRequest(R1, "default", tick, 3, <<Kuba>>, ChatGreeting, SettingsUnset) :
                tick \in {7, 12}}
      [] f = "window" ->
           {PlanRequest(R1, "s1", 7, 0, <<Kuba>>, ChatLong, SettingsOne)}
      [] f = "servers" ->
           {PlanRequest(R1, "default", 7, 0, <<Kuba>>, ChatGreeting, SettingsOne),
            PlanRequest(R1, "", 7, 100, <<Kuba, Ola>>, ChatTie, SettingsTwo),
            PlanRequest(R1, "s1", 7, 200, <<Kuba>>, ChatGreeting, SettingsOne)}
      [] f = "slots" ->
           {PlanRequest(R2, "s1", 7, 100, <<Kuba, Zed, Ola>>, ChatGreeting, SettingsSilent),
            PlanRequest(R1, "s1", 7, 15100, <<Kuba, Kuba>>, ChatGreeting, SettingsTwo),
            PlanRequest(R2, "s1", 7, 0, <<Kuba, Zed>>, ChatTie, SettingsTwo)}
      [] OTHER -> {}

\* the generators NewPlanner can be given: the no-op one, one whose Generate
\* always returns an error, one whose Generate can return anything, and the
\* llm.Client, whose Generate returns what it makes of the output of the command
LLMKinds == {"disabled", "failing", "live", "client"}

Enabled(kind) == kind # "disabled"

\* the planners of the runs: a family of requests and the generator they meet,
\* the llm.Client meeting the requests of one family, and the requests to
\* several servers and the requests with several slots meeting the no-op
\* generator
Planners == {p \in Families \X LLMKinds :
                /\ p[2] = "client" => p[1] = "scenario"
                /\ p[1] \in {"servers", "slots"} => p[2] = "disabled"}

\* what Generate can return: (text, err)
GenerateResults(kind) ==
    CASE kind = "failing" -> {[text |-> << >>, err |-> "error"],
                              [text |-> << >>, err |-> "timeout"]}
      [] kind = "live"    -> {[text |-> << >>, err |-> "error"],
                              [text |-> << >>, err |-> "timeout"],
                              [text |-> << >>, err |-> "nil"],
                              [text |-> <<"ok", "gg">>, err |-> "nil"]}
      [] OTHER            -> {[text |-> << >>, err |-> "llm disabled"]}

-----------------------------------------------------------------------------
(* config.Load; durations are counted in milliseconds *)

defaultLLMTimeoutMS == 2000

\* what an environment variable read by readEnvInt can hold
EnvValues ==
    {[kind |-> "unset", value |-> 0], [kind |-> "invalid", value |-> 0]}
        \cup {[kind |-> "int", value |-> v] :
                  v \in {-1, 0, 1, 500, 999, 1000, 1001, 2000, 3000}}

NoEnv == [LLM_TIMEOUT_MS |-> [kind |-> "unset", value |-> 0],
          LLM_SOFT_TIMEOUT_MS |-> [kind |-> "unset", value |-> 0]]

\* readEnvInt: (value, ok, err)
readEnvInt(raw) ==
    [value |-> IF raw.kind = "int" THEN raw.value ELSE 0,
     ok    |-> raw.kind = "int",
     err   |-> IF raw.kind = "invalid" THEN "invalid" ELSE "nil"]

\* Load, of which the LLM timeouts are kept
Load(env) ==
    LET hard     == readEnvInt(env.LLM_TIMEOUT_MS)
        soft     == readEnvInt(env.LLM_SOFT_TIMEOUT_MS)
        Timeout  == IF hard.ok THEN hard.value ELSE defaultLLMTimeoutMS
        derived  == IF Timeout > 1000 THEN Timeout - 1000 ELSE Timeout
        explicit == IF soft.ok THEN soft.value ELSE derived
        failed(e) == [err |-> e, Timeout |-> 0, SoftTimeout |-> 0]
    IN  IF hard.err # "nil" THEN failed("invalid LLM_TIMEOUT_MS")
        ELSE IF soft.err # "nil" THEN failed("invalid LLM_SOFT_TIMEOUT_MS")
        ELSE IF Timeout < 0 THEN failed("LLM_TIMEOUT_MS must be >= 0")
        ELSE IF explicit < 0 THEN failed("LLM_SOFT_TIMEOUT_MS must be >= 0")
        ELSE [err |-> "nil", Timeout |-> Timeout,
              SoftTimeout |-> IF Timeout > 0 /\ explicit > Timeout
                              THEN Timeout ELSE explicit]

\* main before config.Load
MainStart(env) ==
    [pc |-> "start", env |-> env, LLM |-> Load(NoEnv), LLMTimeout |-> 0]

-----------------------------------------------------------------------------
(* llm.Client *)

\* unicode.IsSpace on the characters of the outputs
IsSpace(c) == c \in {" ", "\n", "\t", "\r"}

\* strings.TrimSpace
TrimSpace(s) ==
    LET keep == {i \in 1..Len(s) : ~IsSpace(s[i])}
    IN  IF keep = {} THEN << >>
        ELSE SubSeq(s, CHOOSE i \in keep : \A j \in keep : i <= j,
                       CHOOSE i \in keep : \A j \in keep : i >= j)

\* strings.Index, counting from 0
Index(s, sub) ==
    LET at == {i \in 0..(Len(s) - Len(sub)) : \A j \in 1..Len(sub) : s[i + j] = sub[j]}
    IN  IF at = {} THEN -1 ELSE CHOOSE i \in at : \A j \in at : i <= j

SilenceToken == <<"_","_","S","I","L","E","N","C","E","_","_">>

RECURSIVE firstNonEmptyLine(_)
firstNonEmptyLine(output) ==
    LET nl      == Index(output, <<"\n">>)
        line    == IF nl = -1 THEN output ELSE SubSeq(output, 1, nl)
        trimmed == TrimSpace(line)
    IN  IF trimmed # << >> THEN trimmed
        ELSE IF nl = -1 THEN << >>
        ELSE firstNonEmptyLine(SubSeq(output, nl + 2, Len(output)))

stripQuotes(value) == SelectSeq(value, LAMBDA c : c \notin {"\"", "'"})

\* a slice expression out of range: the goroutine panics
Panic == <<"panic: slice bounds out of range">>

\* stripBotMarkers: the marker is found in the lowered string and cut out of
\* value at the same byte offset
RECURSIVE stripBotMarkers(_)
stripBotMarkers(value) ==
    LET bytes == Bytes(value)
        idx   == Index(Bytes(ToLower(value)), <<"(","b","o","t",")">>)
    IN  IF idx = -1 THEN value
        ELSE IF idx + 5 > Len(bytes) THEN Panic
        ELSE stripBotMarkers(Runes(SubSeq(bytes, 1, idx)
                                     \o SubSeq(bytes, idx + 6, Len(bytes))))

\* stripBotPrefix; the prefix is cut by its length, which for the letters of
\* the names here is the same in both cases
stripBotPrefix(message, botName) ==
    IF botName = << >> THEN message
    ELSE LET trimmed    == TrimSpace(message)
             lower      == ToLower(trimmed)
             lowerBot   == ToLower(botName)
             separators == << <<":">>, <<"-">>, <<" ", "-">>, <<" ", "em_dash">>,
                              <<"en_dash">> >>
             hits       == {k \in 1..Len(separators) :
                               HasPrefix(lower, lowerBot \o separators[k])}
         IN  IF hits = {} THEN trimmed
             ELSE LET sep  == separators[CHOOSE k \in hits : \A m \in hits : k <= m]
                      rest == TrimSpace(SubSeq(trimmed, Len(lowerBot) + Len(sep) + 1,
                                               Len(trimmed)))
                      body == {i \in 1..Len(rest) :
                                  rest[i] \notin {"-", "em_dash", "en_dash"}}
                  IN  IF body = {} THEN << >>
                      ELSE TrimSpace(SubSeq(rest,
                               CHOOSE i \in body : \A j \in body : i <= j, Len(rest)))

isForbiddenOutput(value, botName) ==
    \/ Contains(value, <<"\"">>) \/ Contains(value, <<"'">>)
    \/ Contains(ToLower(value), <<"(","b","o","t",")">>)
    \/ /\ botName # << >>
       /\ HasPrefix(ToLower(TrimSpace(value)), ToLower(botName) \o <<":">>)

truncateRunes(value, limit) ==
    IF limit <= 0 THEN << >>
    ELSE IF Len(value) <= limit THEN value
    ELSE SubSeq(value, 1, limit)

normalizeLLMOutput(output, botName) ==
    LET first == firstNonEmptyLine(output)
        line  == TrimSpace(stripBotPrefix(stripQuotes(stripBotMarkers(first)), botName))
        cut   == IF Len(line) > 80 THEN TrimSpace(truncateRunes(line, 80)) ELSE line
    IN  IF first = << >> THEN SilenceToken
        ELSE IF EqualFold(TrimSpace(first), SilenceToken) THEN SilenceToken
        ELSE IF stripBotMarkers(first) = Panic THEN Panic
        ELSE IF line = << >> THEN SilenceToken
        ELSE IF cut = << >> THEN SilenceToken
        ELSE IF isForbiddenOutput(cut, botName) THEN SilenceToken
        ELSE cut

sanitizeResponse(prompt, output, botName) ==
    LET response == TrimSpace(output)
        rest     == IF HasPrefix(response, prompt)
                    THEN SubSeq(response, Len(prompt) + 1, Len(response))
                    ELSE response
    IN  normalizeLLMOutput(TrimSpace(rest), botName)

\* what the command can print, or fail with; of the prompt the outputs that
\* repeat it hold the last line
RawOutputs ==
    {[output |-> << >>, err |-> "error"],
     [output |-> << >>, err |-> "timeout"],
     [output |-> << >>, err |-> "nil"],
     [output |-> <<"O","U","T",":","\n","h","e","j","\n","x">>, err |-> "nil"],
     [output |-> <<"\"","K","u","b","a",":"," ","s","i","e","m","a","\"">>, err |-> "nil"],
     [output |-> <<"_","_","s","i","l","e","n","c","e","_","_">>, err |-> "nil"],
     [output |-> <<"K","u","b","a",":"," ","k","u","b","a",":"," ","h","e","j">>,
      err |-> "nil"],
     [output |-> <<"(","b","'","o","t",")"," ","h","e","j">>, err |-> "nil"],
     [output |-> <<"I_DOT","(","b","o","t",")"," ","h","e","j">>, err |-> "nil"],
     [output |-> [k \in 1..81 |-> IF k = 80 THEN " " ELSE "a"], err |-> "nil"]}

\* Client.Generate from the return of the command
Generate(run, botName) ==
    IF run.err # "nil" THEN [text |-> << >>, err |-> run.err]
    ELSE LET response == sanitizeResponse(<<"O","U","T",":","\n">>, run.output, botName)
         IN  IF response = << >>
             THEN [text |-> << >>, err |-> "llm returned empty response"]
             ELSE [text |-> response, err |-> "nil"]

-----------------------------------------------------------------------------
(* llm.EnsureServerReady, ServerProcess.Close and llm.NewClient *)

\* desiredState of EnsureServerReady for the configured url
DesiredState ==
    [kind |-> "state", URL |-> "http://127.0.0.1:8080", Command |-> "llama-server",
     Args |-> <<"--model", "m.gguf", "--host", "127.0.0.1", "--port", "8080">>,
     PID |-> 0]

\* what logs/llm_server_state.json can hold when main starts: nothing, bytes
\* that are no record, the desired state, or a state of another url, command
\* or arguments, with and without a pid
StateFiles ==
    {[DesiredState EXCEPT !.kind = k] : k \in {"absent", "unreadable"}}
        \cup {[st EXCEPT !.PID = pid] :
                 st \in {DesiredState,
                         [DesiredState EXCEPT !.URL = "http://127.0.0.1:9090"],
                         [DesiredState EXCEPT !.Command = "/opt/llama-server"],
                         [DesiredState EXCEPT !.Args = Append(@, "--threads")],
                         [DesiredState EXCEPT !.Args[2] = "other.gguf"]},
                 pid \in {0, 7}}

\* serverState.matches
matches(s, other) ==
    IF s.URL # other.URL \/ s.Command # other.Command THEN FALSE
    ELSE IF Len(s.Args) # Len(other.Args) THEN FALSE
    ELSE \A i \in 1..Len(s.Args) : s.Args[i] = other.Args[i]

\* needsServerRestart: (restartNeeded, existingState, err)
needsServerRestart(file, desired) ==
    CASE file.kind = "absent" ->
             [restart |-> FALSE, state |-> "nil", err |-> "errServerStateMissing"]
      [] file.kind = "unreadable" ->
             [restart |-> FALSE, state |-> "nil", err |-> "read"]
      [] OTHER ->
             [restart |-> ~matches(file, desired), state |-> "state", err |-> "nil"]

\* checkServerReady answering for every process that was started
checkServerReadyEarly(s) == s.old = "up" \/ s.child # "none"

\* checkServerReady: some server answers at the url
checkServerReady(s) == s.old = "up" \/ s.child = "ready"

\* main before EnsureServerReady: the configured url ("" , one without a
\* host, or a good one), whether a model path resolves, the state file and the
\* server answering at the url
ServerStart(url, model, file, old) ==
    [pc |-> "start", url |-> url, model |-> model, file |-> file, old |-> old,
     was |-> [file |-> file, old |-> old],
     child |-> "none", elapsed |-> FALSE, ret |-> "none", closeErr |-> "nil",
     enabled |-> FALSE, log |-> << >>]

\* ServerProcess.Close on the spawned process, which after the interrupt exits
\* with status 0 ("clean"), exits with another status or by the signal
\* ("status"), or does not exit within the five seconds ("hang")
Close(s, outcome) ==
    IF s.child = "none" THEN s
    ELSE IF s.child \in {"exited", "killed"}
    THEN [s EXCEPT !.closeErr = "llm server signal"]
    ELSE CASE outcome = "clean" ->
                  [s EXCEPT !.child = "exited", !.log = Append(@, "signal"),
                            !.file.kind = "absent"]
           [] outcome = "status" ->
                  [s EXCEPT !.child = "exited", !.log = Append(@, "signal"),
                            !.closeErr = "llm server stop"]
           [] OTHER ->
                  [s EXCEPT !.child = "killed", !.log = @ \o <<"signal", "kill">>,
                            !.file.kind = "absent"]

-----------------------------------------------------------------------------
(* logging.ElasticLogger *)

elasticLogChannelSize == 512

\* the entries offered to Enqueue in a run
MaxEntries == 4

\* NewElasticLogger, and then backlog entries accepted before the worker took
\* one.  The entries are numbered as the queue accepts them: the queue holds
\* the entries received + 1 .. accepted, and the entries 1 .. sent are sent.
\* worker is where run stands, closer where Close stands; atClose is what was
\* accepted when Close was called.
NewElasticLogger(backlog) ==
    [offered |-> 0, accepted |-> backlog, dropped |-> 0, received |-> 0, sent |-> 0,
     worker |-> "select", closer |-> "open", atClose |-> 0]

\* len(l.queue)
QueueLen(e) == e.accepted - e.received

-----------------------------------------------------------------------------
(* Plan, one invocation *)

Invocations == 1..MaxRequests

\* the holder of mu during RegisterBots
RegCaller == MaxRequests + 1

NoRequest  == [RequestID |-> << >>]
NoResponse == [RequestID |-> << >>]

\* An invocation before Plan is called.  pc is where the invocation stands:
\* "idle", "ss_wait" and "ss_held" (shouldSuppress before and after Lock),
\* "llm" (inside Generate), "rem_wait" and "rem_held" (remember before and
\* after Lock), "returned".  ti and bi are the loop positions in topics and
\* selected.  The last four fields are the history of the invocation: emits
\* lists the topic and the bot of each action, in step with actions; checks
\* the shouldSuppress calls, with the entry they found; calls the Generate
\* calls, with whether a text came back; writes the keys remember wrote;
\* visits the slots the loops went into, with how each one ended.
IdleInvocation ==
    [pc |-> "idle", req |-> NoRequest, seed |-> 0, n |-> 0,
     bots |-> << >>, topics |-> << >>, settings |-> SettingsUnset,
     selected |-> << >>, ti |-> 1, bi |-> 1, base |-> "",
     actions |-> << >>, suppressed |-> 0,
     attempted |-> FALSE, used |-> FALSE, resp |-> NoResponse,
     emits |-> << >>, checks |-> << >>, calls |-> << >>, writes |-> << >>,
     raws |-> << >>, visits |-> << >>]

PlanResponse(requestID, actions, strategy, suppressed) ==
    [RequestID |-> requestID, Actions |-> actions,
     Debug |-> [ChosenStrategy |-> strategy, SuppressedReplies |-> suppressed]]

Returned(t, actions, strategy, suppressed) ==
    [t EXCEPT !.pc = "returned",
              !.resp = PlanResponse(t.req.RequestID, actions, strategy, suppressed)]

SlotTopic(t) == t.topics[t.ti]
SlotBot(t)   == t.selected[t.bi]

\* the topic remember is given: "small_talk" on the small-talk path
MemoryTopic(t) == IF t.base = "small_talk" THEN "small_talk" ELSE SlotTopic(t)

\* continue: the next bot of the inner loop
NextBot(t) == [t EXCEPT !.bi = @ + 1]

\* the slot of the loops is left with the outcome out: "suppressed" by
\* shouldSuppress, "avoided" by the persona, "no_message", or "action"
Visit(t, out) ==
    [t EXCEPT !.visits = Append(@, [topic |-> MemoryTopic(t), bot |-> SlotBot(t),
                                    out |-> out])]

\* the action of the slot put in front of the actions before it
AppendActionFront(t, message, reason) ==
    LET d == randomDelay(t.settings, t.seed, t.n)
    IN  [t EXCEPT !.actions = <<[BotID       |-> SlotBot(t).BotID,
                                 SendAfterMS |-> d.delay,
                                 Message     |-> message,
                                 Visibility  |-> "PUBLIC",
                                 Reason      |-> reason]>> \o @,
                  !.emits = <<[topic |-> MemoryTopic(t), bot |-> SlotBot(t)]>> \o @,
                  !.visits = Visit(t, "action").visits,
                  !.n = d.n,
                  !.pc = "rem_wait"]

\* the action appended for the slot, with its delay drawn; remember comes next
AppendAction(t, message, reason) ==
    LET d == randomDelay(t.settings, t.seed, t.n)
    IN  [t EXCEPT !.actions = Append(@, [BotID       |-> SlotBot(t).BotID,
                                         SendAfterMS |-> d.delay,
                                         Message     |-> message,
                                         Visibility  |-> "PUBLIC",
                                         Reason      |-> reason]),
                  !.emits = Append(@, [topic |-> MemoryTopic(t), bot |-> SlotBot(t)]),
                  !.visits = Visit(t, "action").visits,
                  !.n = d.n,
                  !.pc = "rem_wait"]

RECURSIVE Settle(_)

\* generateMessage without a delegated text: generateResponse, then back in
\* the caller the action or the skip
Heuristic(t) ==
    LET g  == generateResponse(SlotTopic(t), SlotBot(t), t.seed, t.n)
        t1 == [t EXCEPT !.n = g.n]
    IN  IF g.msg = << >> THEN Settle(NextBot(Visit(t1, "no_message")))
        ELSE AppendAction(t1, g.msg, g.reason)

\* generateMessage asking the generator before the avoid-topic veto
generateMessageDelegateFirst(t) ==
    IF Enabled(llmKind) THEN [t EXCEPT !.pc = "llm"]
    ELSE IF shouldAvoidTopic(SlotTopic(t), SlotBot(t).Persona.AvoidTopics)
    THEN Settle(NextBot(Visit(t, "avoided")))
    ELSE Heuristic(t)

\* generateMessage with the avoid-topic veto counted as a suppression
generateMessageAvoidCounted(t) ==
    IF shouldAvoidTopic(SlotTopic(t), SlotBot(t).Persona.AvoidTopics)
    THEN Settle([Visit(t, "avoided") EXCEPT !.suppressed = @ + 1, !.bi = @ + 1])
    ELSE IF Enabled(llmKind) THEN [t EXCEPT !.pc = "llm"]
    ELSE Heuristic(t)

\* generateMessage up to the Generate call, p.llm being llmKind
generateMessage(t) ==
    IF shouldAvoidTopic(SlotTopic(t), SlotBot(t).Persona.AvoidTopics)
    THEN Settle(NextBot(Visit(t, "avoided")))
    ELSE IF Enabled(llmKind) THEN [t EXCEPT !.pc = "llm"]
    ELSE Heuristic(t)

\* generateMessage giving the slot up when Generate brought no text
generateMessageReturnSkip(t, result) ==
    LET ok == result.err = "nil" /\ result.text # << >>
        t1 == [t EXCEPT !.attempted = TRUE,
                        !.calls = Append(@, [topic |-> MemoryTopic(t),
                                             bot |-> SlotBot(t), ok |-> ok])]
    IN  IF ok
        THEN AppendAction([t1 EXCEPT !.used = TRUE], result.text, "llm")
        ELSE Settle(NextBot(Visit(t1, "no_message")))

\* generateMessage from the return of Generate
generateMessageReturn(t, result) ==
    LET ok == result.err = "nil" /\ result.text # << >>
        t1 == [t EXCEPT !.attempted = TRUE,
                        !.calls = Append(@, [topic |-> MemoryTopic(t),
                                             bot |-> SlotBot(t), ok |-> ok])]
    IN  IF ok
        THEN AppendAction([t1 EXCEPT !.used = TRUE], result.text, "llm")
        ELSE Heuristic(t1)

\* the loops stopping one action late
SettleLate(t) ==
    IF t.ti > Len(t.topics)
    THEN Returned(t, t.actions, strategyLabel(t.base, t.attempted, t.used),
                  t.suppressed)
    ELSE IF t.bi > Len(t.selected)
    THEN Settle([t EXCEPT !.ti = @ + 1, !.bi = 1])
    ELSE IF t.base = "small_talk"
    THEN generateMessage(t)
    ELSE IF Len(t.actions) > t.settings.MaxActions
    THEN Settle([t EXCEPT !.ti = @ + 1, !.bi = 1])
    ELSE IF SlotBot(t).BotID = << >>
    THEN Settle([Visit(t, "suppressed") EXCEPT !.suppressed = @ + 1, !.bi = @ + 1])
    ELSE [t EXCEPT !.pc = "ss_wait"]

\* The loops of buildPlan and smallTalkPlan from the head of an iteration up
\* to the next lock, Generate call or return.
Settle(t) ==
    IF t.ti > Len(t.topics)
    THEN Returned(t, t.actions, strategyLabel(t.base, t.attempted, t.used),
                  t.suppressed)
    ELSE IF t.bi > Len(t.selected)
    THEN Settle([t EXCEPT !.ti = @ + 1, !.bi = 1])
    ELSE IF t.base = "small_talk"
    THEN generateMessage(t)
    ELSE IF Len(t.actions) >= t.settings.MaxActions
    THEN Settle([t EXCEPT !.ti = @ + 1, !.bi = 1])
    ELSE IF SlotBot(t).BotID = << >>
    THEN Settle([Visit(t, "suppressed") EXCEPT !.suppressed = @ + 1, !.bi = @ + 1])
    ELSE [t EXCEPT !.pc = "ss_wait"]

\* buildPlan suppressing the reply when the draw equals the reply chance
buildPlanReplyStrict(t) ==
    IF Len(t.topics) = 0
    THEN IF Float64(t.seed, t.n) < t.settings.GlobalSilenceChance
         THEN Returned(t, << >>, "silence", 1)
         ELSE LET p  == pickBots(t.bots, 1, t.seed, t.n + 1)
                  t1 == [t EXCEPT !.base = "small_talk", !.selected = p.sel,
                                  !.n = p.n, !.topics = <<TopicNone>>]
              IN  Settle(t1)
    ELSE IF containsTopic(t.topics, TopicToxic)
    THEN Returned(t, << >>, "toxic_silence", Len(t.bots))
    ELSE IF Float64(t.seed, t.n) >= t.settings.ReplyChance
    THEN Returned(t, << >>, "reply_suppressed", 1)
    ELSE LET p == pickBots(t.bots, t.settings.MaxActions, t.seed, t.n + 1)
         IN  Settle([t EXCEPT !.base = "heuristics", !.selected = p.sel, !.n = p.n])

\* buildPlan with the silence comparison turned around
buildPlanSilenceInverted(t) ==
    IF Len(t.topics) = 0
    THEN IF Float64(t.seed, t.n) > t.settings.GlobalSilenceChance
         THEN Returned(t, << >>, "silence", 1)
         ELSE LET p  == pickBots(t.bots, 1, t.seed, t.n + 1)
                  t1 == [t EXCEPT !.base = "small_talk", !.selected = p.sel,
                                  !.n = p.n, !.topics = <<TopicNone>>]
              IN  Settle(t1)
    ELSE IF containsTopic(t.topics, TopicToxic)
    THEN Returned(t, << >>, "toxic_silence", Len(t.bots))
    ELSE IF Float64(t.seed, t.n) > t.settings.ReplyChance
    THEN Returned(t, << >>, "reply_suppressed", 1)
    ELSE LET p == pickBots(t.bots, t.settings.MaxActions, t.seed, t.n + 1)
         IN  Settle([t EXCEPT !.base = "heuristics", !.selected = p.sel, !.n = p.n])

\* buildPlan with smallTalkPlan picking two bots
buildPlanSmallTalkTwo(t) ==
    IF Len(t.topics) = 0
    THEN IF Float64(t.seed, t.n) < t.settings.GlobalSilenceChance
         THEN Returned(t, << >>, "silence", 1)
         ELSE LET p  == pickBots(t.bots, 2, t.seed, t.n + 1)
                  t1 == [t EXCEPT !.base = "small_talk", !.selected = p.sel,
                                  !.n = p.n, !.topics = <<TopicNone>>]
              IN  Settle(t1)
    ELSE IF containsTopic(t.topics, TopicToxic)
    THEN Returned(t, << >>, "toxic_silence", Len(t.bots))
    ELSE IF Float64(t.seed, t.n) > t.settings.ReplyChance
    THEN Returned(t, << >>, "reply_suppressed", 1)
    ELSE LET p == pickBots(t.bots, t.settings.MaxActions, t.seed, t.n + 1)
         IN  Settle([t EXCEPT !.base = "heuristics", !.selected = p.sel, !.n = p.n])

\* buildPlan up to the loops
buildPlan(t) ==
    IF Len(t.topics) = 0
    THEN IF Float64(t.seed, t.n) < t.settings.GlobalSilenceChance
         THEN Returned(t, << >>, "silence", 1)
         ELSE LET p  == pickBots(t.bots, 1, t.seed, t.n + 1)
                  t1 == [t EXCEPT !.base = "small_talk", !.selected = p.sel,
                                  !.n = p.n, !.topics = <<TopicNone>>]
              IN  Settle(t1)
    ELSE IF containsTopic(t.topics, TopicToxic)
    THEN Returned(t, << >>, "toxic_silence", Len(t.bots))
    ELSE IF Float64(t.seed, t.n) > t.settings.ReplyChance
    THEN Returned(t, << >>, "reply_suppressed", 1)
    ELSE LET p == pickBots(t.bots, t.settings.MaxActions, t.seed, t.n + 1)
         IN  Settle([t EXCEPT !.base = "heuristics", !.selected = p.sel, !.n = p.n])

\* Plan up to the first lock, Generate call or return
Plan(req, topics) ==
    LET rng == NewSeededRand(<<req.RequestID, Sprint(req.Tick), Sprint(req.TimeMS)>>)
        availableBots == filterSelfReplyBots(req, filterAvailableBots(req.Bots))
        t == [IdleInvocation EXCEPT !.req = req, !.seed = rng]
    IN  IF Len(availableBots) = 0
        THEN Returned(t, << >>, "", 0)
        ELSE buildPlan([t EXCEPT !.bots = availableBots, !.topics = topics,
                                 !.settings = normalizeSettings(req.Settings)])

-----------------------------------------------------------------------------
(* the actions *)

\* the log lines whose place relative to the lock is recorded
Log(op, locked) == iolog' = iolog \cup {[op |-> op, locked |-> locked]}

\* Plan drawing from one source that all the calls in flight share
PlanCallSharedRand(i) ==
    /\ inv[i].pc = "idle"
    /\ IF i = 1 THEN TRUE ELSE inv[i - 1].pc # "idle"
    /\ \E req \in RequestPool(family) :
         \E topics \in detectTopics(req.Chat) :
            inv' = [k \in Invocations |->
                      IF k = i THEN Plan(req, topics)
                      ELSE IF inv[k].pc \in {"idle", "returned"} THEN inv[k]
                      ELSE [inv[k] EXCEPT !.n = @ + Plan(req, topics).n]]
    /\ Log("planner_plan_start", mu = i)
    /\ UNCHANGED <<memory, registry, mu, llmKind, family, reg, cfg, srv, es>>

\* Plan is called with a request of the family; it runs up to its first lock,
\* Generate call or return
PlanCall(i) ==
    /\ inv[i].pc = "idle"
    /\ IF i = 1 THEN TRUE ELSE inv[i - 1].pc # "idle"
    /\ \E req \in RequestPool(family) :
         \E topics \in detectTopics(req.Chat) :
            inv' = [inv EXCEPT ![i] = Plan(req, topics)]
    /\ Log("planner_plan_start", mu = i)
    /\ UNCHANGED <<memory, registry, mu, llmKind, family, reg, cfg, srv, es>>

\* shouldSuppress: p.mu.Lock()
SuppressLock(i) ==
    /\ inv[i].pc = "ss_wait"
    /\ mu = 0
    /\ mu' = i
    /\ inv' = [inv EXCEPT ![i].pc = "ss_held"]
    /\ UNCHANGED <<memory, registry, llmKind, family, reg, iolog, cfg, srv, es>>

\* shouldSuppress with the suppressed slot written to the memory
SuppressCheckWriting(i) ==
    LET t   == inv[i]
        key == <<ServerKey(t.req.Server.ServerID), SlotBot(t).BotID, SlotTopic(t)>>
        hit == shouldSuppress(memory, t.req.Server.ServerID, SlotBot(t).BotID,
                              SlotTopic(t), t.req.TimeMS)
        t1  == [t EXCEPT !.checks = Append(@,
                   [key |-> key, found |-> key \in DOMAIN memory,
                    last |-> IF key \in DOMAIN memory THEN memory[key] ELSE 0,
                    now |-> t.req.TimeMS, suppress |-> hit])]
    IN  /\ t.pc = "ss_held"
        /\ mu = i
        /\ mu' = 0
        /\ memory' = IF hit
                     THEN remember(memory, t.req.Server.ServerID, SlotBot(t).BotID,
                                   SlotTopic(t), t.req.TimeMS)
                     ELSE memory
        /\ inv' = [inv EXCEPT ![i] =
                     IF hit
                     THEN Settle([Visit(t1, "suppressed") EXCEPT !.suppressed = @ + 1,
                                                                !.bi = @ + 1])
                     ELSE generateMessage(t1)]
        /\ UNCHANGED <<registry, llmKind, family, reg, iolog, cfg, srv, es>>

\* shouldSuppress: the lookup and the deferred Unlock; then buildPlan counts
\* the suppression or goes on into generateMessage
SuppressCheck(i) ==
    LET t   == inv[i]
        key == <<ServerKey(t.req.Server.ServerID), SlotBot(t).BotID, SlotTopic(t)>>
        hit == shouldSuppress(memory, t.req.Server.ServerID, SlotBot(t).BotID,
                              SlotTopic(t), t.req.TimeMS)
        t1  == [t EXCEPT !.checks = Append(@,
                   [key |-> key, found |-> key \in DOMAIN memory,
                    last |-> IF key \in DOMAIN memory THEN memory[key] ELSE 0,
                    now |-> t.req.TimeMS, suppress |-> hit])]
    IN  /\ t.pc = "ss_held"
        /\ mu = i
        /\ mu' = 0
        /\ inv' = [inv EXCEPT ![i] =
                     IF hit
                     THEN Settle([Visit(t1, "suppressed") EXCEPT !.suppressed = @ + 1,
                                                                !.bi = @ + 1])
                     ELSE generateMessage(t1)]
        /\ UNCHANGED <<memory, registry, llmKind, family, reg, iolog, cfg, srv, es>>

\* Generate returns, or is cancelled at its deadline and returns an error; with
\* the llm.Client what the command printed is kept beside the call
GenerateReturn(i) ==
    /\ inv[i].pc = "llm"
    /\ IF llmKind = "client"
       THEN \E run \in RawOutputs :
               inv' = [inv EXCEPT ![i] =
                         generateMessageReturn(
                             [inv[i] EXCEPT !.raws = Append(@, run.output)],
                             Generate(run, SlotBot(inv[i]).Name))]
       ELSE \E result \in GenerateResults(llmKind) :
               inv' = [inv EXCEPT ![i] =
                         generateMessageReturn(
                             [inv[i] EXCEPT !.raws = Append(@, result.text)], result)]
    /\ UNCHANGED <<memory, registry, mu, llmKind, family, reg, iolog, cfg, srv, es>>

\* remember: p.mu.Lock()
RememberLock(i) ==
    /\ inv[i].pc = "rem_wait"
    /\ mu = 0
    /\ mu' = i
    /\ inv' = [inv EXCEPT ![i].pc = "rem_held"]
    /\ UNCHANGED <<memory, registry, llmKind, family, reg, iolog, cfg, srv, es>>

\* remember without the deferred Unlock
RememberWriteHolding(i) ==
    LET t == inv[i]
    IN  /\ t.pc = "rem_held"
        /\ mu = i
        /\ mu' = i
        /\ memory' = remember(memory, t.req.Server.ServerID, SlotBot(t).BotID,
                              MemoryTopic(t), t.req.TimeMS)
        /\ inv' = [inv EXCEPT ![i] =
                     Settle(NextBot([t EXCEPT !.writes = Append(@,
                        <<ServerKey(t.req.Server.ServerID), SlotBot(t).BotID,
                          MemoryTopic(t)>>)]))]
        /\ UNCHANGED <<registry, llmKind, family, reg, iolog, cfg, srv, es>>

\* remember: the write and the deferred Unlock; then the loop goes on
RememberWrite(i) ==
    LET t == inv[i]
    IN  /\ t.pc = "rem_held"
        /\ mu = i
        /\ mu' = 0
        /\ memory' = remember(memory, t.req.Server.ServerID, SlotBot(t).BotID,
                              MemoryTopic(t), t.req.TimeMS)
        /\ inv' = [inv EXCEPT ![i] =
                     Settle(NextBot([t EXCEPT !.writes = Append(@,
                        <<ServerKey(t.req.Server.ServerID), SlotBot(t).BotID,
                          MemoryTopic(t)>>)]))]
        /\ UNCHANGED <<registry, llmKind, family, reg, iolog, cfg, srv, es>>

\* the RegisterBots calls of a run
RegisterPool == {[ServerID |-> "", Bots |-> <<Kuba, Anon>>],
                 [ServerID |-> "s1", Bots |-> <<Ola>>]}

\* RegisterBots is called: the server id is defaulted, then p.mu.Lock() waits
RegisterCall ==
    /\ reg.pc = "idle"
    /\ \E call \in RegisterPool :
          reg' = [pc |-> "wait", serverID |-> ServerKey(call.ServerID),
                  bots |-> call.Bots, count |-> 0]
    /\ UNCHANGED <<memory, registry, mu, llmKind, family, inv, iolog, cfg, srv, es>>

RegisterLock ==
    /\ reg.pc = "wait"
    /\ mu = 0
    /\ mu' = RegCaller
    /\ reg' = [reg EXCEPT !.pc = "held"]
    /\ UNCHANGED <<memory, registry, llmKind, family, inv, iolog, cfg, srv, es>>

\* the bots with a bot id, in the order RegisterBots stores them
Registered(bots) == SelectSeq(bots, LAMBDA bot : bot.BotID # << >>)

\* RegisterBots emptying the cooldown memory as it stores the bots
RegisterWriteForgets ==
    /\ reg.pc = "held"
    /\ mu = RegCaller
    /\ LET kept == Registered(reg.bots)
           keys == {<<reg.serverID, kept[k].BotID>> : k \in 1..Len(kept)}
       IN  /\ registry' =
                [key \in (DOMAIN registry) \cup keys |->
                    IF key \in keys
                    THEN kept[CHOOSE k \in 1..Len(kept) :
                                /\ kept[k].BotID = key[2]
                                /\ \A m \in (k + 1)..Len(kept) : kept[m].BotID # key[2]]
                    ELSE registry[key]]
           /\ reg' = [reg EXCEPT !.pc = "returned", !.count = Len(kept)]
    /\ Log("planner_register", mu = RegCaller)
    /\ mu' = 0
    /\ memory' = << >>
    /\ UNCHANGED <<llmKind, family, inv, cfg, srv, es>>

\* RegisterBots: the loop over the bots, the log line and the deferred Unlock
RegisterWrite ==
    /\ reg.pc = "held"
    /\ mu = RegCaller
    /\ LET kept == Registered(reg.bots)
           keys == {<<reg.serverID, kept[k].BotID>> : k \in 1..Len(kept)}
       IN  /\ registry' =
                [key \in (DOMAIN registry) \cup keys |->
                    IF key \in keys
                    THEN kept[CHOOSE k \in 1..Len(kept) :
                                /\ kept[k].BotID = key[2]
                                /\ \A m \in (k + 1)..Len(kept) : kept[m].BotID # key[2]]
                    ELSE registry[key]]
           /\ reg' = [reg EXCEPT !.pc = "returned", !.count = Len(kept)]
    /\ Log("planner_register", mu = RegCaller)
    /\ mu' = 0
    /\ UNCHANGED <<memory, llmKind, family, inv, cfg, srv, es>>

Init ==
    /\ memory = << >>
    /\ registry = << >>
    /\ mu = 0
    /\ llmKind \in LLMKinds
    /\ family \in Families
    /\ <<family, llmKind>> \in Planners
    /\ inv = [i \in Invocations |-> IdleInvocation]
    /\ reg = [pc |-> "idle", serverID |-> "", bots |-> << >>, count |-> 0]
    /\ iolog = {}
    /\ cfg = [pc |-> "serving", env |-> NoEnv, LLM |-> Load(NoEnv),
              LLMTimeout |-> Load(NoEnv).SoftTimeout]
    /\ srv = [ServerStart("", FALSE, [DesiredState EXCEPT !.kind = "absent"], "down")
                 EXCEPT !.pc = "serving", !.ret = "nil"]
    /\ es = NewElasticLogger(0)

PlanNext ==
    \/ \E i \in Invocations : PlanCall(i)
    \/ \E i \in Invocations : SuppressLock(i)
    \/ \E i \in Invocations : SuppressCheck(i)
    \/ \E i \in Invocations : GenerateReturn(i)
    \/ \E i \in Invocations : RememberLock(i)
    \/ \E i \in Invocations : RememberWrite(i)

\* Plan invocations on one Planner, concurrently
Next == PlanNext

Spec == Init /\ [][Next]_vars

\* Plan invocations and RegisterBots calls on one Planner, concurrently, the
\* requests being those of one family
InitReg == Init /\ family = "tie"

NextReg ==
    \/ PlanNext
    \/ RegisterCall
    \/ RegisterLock
    \/ RegisterWrite

SpecReg == InitReg /\ [][NextReg]_vars

\* the steps of invocation i after the call
PlanStep(i) ==
    \/ SuppressLock(i)
    \/ SuppressCheck(i)
    \/ GenerateReturn(i)
    \/ RememberLock(i)
    \/ RememberWrite(i)

\* PlanStep(i) is enabled: the invocation holds the lock, or waits for a lock
\* that is free, or is inside a Generate call, which returns or is cancelled at
\* its deadline
CanStep(i) ==
    \/ inv[i].pc \in {"ss_held", "rem_held"} /\ mu = i
    \/ inv[i].pc \in {"ss_wait", "rem_wait"} /\ mu = 0
    \/ inv[i].pc = "llm"

\* the step of RegisterBots after the call, and its being enabled
RegisterStep == RegisterLock \/ RegisterWrite

CanRegister ==
    \/ reg.pc = "held" /\ mu = RegCaller
    \/ reg.pc = "wait" /\ mu = 0

\* SpecReg with weak fairness of the steps of every invocation and of
\* RegisterBots: a goroutine that stays able to run runs in the end.  The
\* conditions are WF_vars(PlanStep(i)) and WF_vars(RegisterStep) with ENABLED
\* written out as CanStep(i) and CanRegister.
FairSpecReg ==
    /\ SpecReg
    /\ \A i \in Invocations :
          []<>(~CanStep(i)) \/ []<><<PlanStep(i)>>_vars
    /\ []<>(~CanRegister) \/ []<><<RegisterStep>>_vars

\* main: config.Load, and log.Fatalf when it fails
LoadConfig ==
    /\ cfg.pc = "start"
    /\ cfg' = [cfg EXCEPT !.LLM = Load(cfg.env),
                          !.pc = IF Load(cfg.env).err = "nil" THEN "loaded" ELSE "exited"]
    /\ UNCHANGED <<memory, registry, mu, llmKind, family, inv, reg, iolog, srv, es>>

\* main: NewPlanner with LLMTimeout: cfg.LLM.SoftTimeout
HandTimeout ==
    /\ cfg.pc = "loaded"
    /\ cfg' = [cfg EXCEPT !.LLMTimeout = cfg.LLM.SoftTimeout, !.pc = "serving"]
    /\ UNCHANGED <<memory, registry, mu, llmKind, family, inv, reg, iolog, srv, es>>

\* the start of main under every environment
InitMain ==
    /\ memory = << >>
    /\ registry = << >>
    /\ mu = 0
    /\ llmKind = "client"
    /\ family = "scenario"
    /\ inv = [i \in Invocations |-> IdleInvocation]
    /\ reg = [pc |-> "idle", serverID |-> "", bots |-> << >>, count |-> 0]
    /\ iolog = {}
    /\ \E hard \in EnvValues, soft \in EnvValues :
          cfg = MainStart([LLM_TIMEOUT_MS |-> hard, LLM_SOFT_TIMEOUT_MS |-> soft])
    /\ srv = [ServerStart("", FALSE, [DesiredState EXCEPT !.kind = "absent"], "down")
                 EXCEPT !.pc = "serving", !.ret = "nil"]
    /\ es = NewElasticLogger(0)

NextMain == LoadConfig \/ HandTimeout

SpecMain == InitMain /\ [][NextMain]_vars

\* the variables of the planner and of config.Load
others == <<memory, registry, mu, llmKind, family, inv, reg, iolog, cfg, es>>

\* EnsureServerReady going on to the spawn when the restart is required
EnsureServerReadyNoStop ==
    /\ srv.pc = "start"
    /\ srv' =
         IF srv.url = "" \/ ~srv.model
         THEN [srv EXCEPT !.pc = "ensured", !.ret = "nil"]
         ELSE IF srv.url = "no host"
         THEN [srv EXCEPT !.pc = "ensured", !.ret = "error"]
         ELSE IF checkServerReady(srv)
         THEN LET r == needsServerRestart(srv.file, DesiredState)
                  restartNeeded == r.restart \/ r.err = "errServerStateMissing"
              IN  IF ~restartNeeded
                  THEN [srv EXCEPT !.pc = "ensured", !.ret = "nil"]
                  ELSE [srv EXCEPT !.pc = "spawn"]
         ELSE [srv EXCEPT !.pc = "spawn"]
    /\ UNCHANGED others

\* EnsureServerReady from its entry to its return, to the restart of the
\* server it found, or to the spawn
EnsureServerReady ==
    /\ srv.pc = "start"
    /\ srv' =
         IF srv.url = "" \/ ~srv.model
         THEN [srv EXCEPT !.pc = "ensured", !.ret = "nil"]
         ELSE IF srv.url = "no host"
         THEN [srv EXCEPT !.pc = "ensured", !.ret = "error"]
         ELSE IF checkServerReady(srv)
         THEN LET r == needsServerRestart(srv.file, DesiredState)
                  restartNeeded == r.restart \/ r.err = "errServerStateMissing"
              IN  IF ~restartNeeded
                  THEN [srv EXCEPT !.pc = "ensured", !.ret = "nil"]
                  ELSE [srv EXCEPT !.pc = "restart"]
         ELSE [srv EXCEPT !.pc = "spawn"]
    /\ UNCHANGED others

\* a stop step saw the probe fail: removeServerState, and on to the spawn
Stopped(s) ==
    [s EXCEPT !.pc = "spawn", !.old = "down", !.file.kind = "absent",
              !.log = Append(@, "stop")]

\* a stop step gave up: EnsureServerReady returns the error
StopFailed(s) == [s EXCEPT !.pc = "ensured", !.ret = "error"]

\* stopServerByPID: the interrupt, up to 5 s of probes, the kill, and up to
\* 5 s of probes again.  The server stops answering after the interrupt, or
\* after the kill, or the kill fails, or it answers on after the kill.
stopServerByPID(s, outcome) ==
    LET s1 == [s EXCEPT !.log = Append(@, "pid interrupt")]
        s2 == [s1 EXCEPT !.log = Append(@, "pid kill")]
    IN  CASE outcome = "stops" -> Stopped(s1)
          [] outcome = "stops late" -> Stopped(s2)
          [] outcome = "kill fails" -> StopFailed(s1)
          [] OTHER -> StopFailed(s2)

\* stopServerByURL: the requests to /shutdown and /exit; after an accepted one
\* the server stops answering within 5 s, or no request brings it down
stopServerByURL(s, outcome) ==
    LET s1 == [s EXCEPT !.log = Append(@, "shutdown request")]
    IN  IF outcome \in {"stops", "stops late"} THEN Stopped(s1) ELSE StopFailed(s1)

\* restartRunningServer stopping by the url whatever the record holds
restartRunningServerByURL ==
    /\ srv.pc = "restart"
    /\ \E outcome \in {"stops", "stops late", "kill fails", "answers"} :
          srv' = stopServerByURL(srv, outcome)
    /\ UNCHANGED others

\* restartRunningServer: stopServerByURL without a record or without a pid in
\* it, else stopServerByPID
restartRunningServer ==
    /\ srv.pc = "restart"
    /\ \E outcome \in {"stops", "stops late", "kill fails", "answers"} :
          srv' = IF srv.file.kind # "state" \/ srv.file.PID = 0
                 THEN stopServerByURL(srv, outcome)
                 ELSE stopServerByPID(srv, outcome)
    /\ UNCHANGED others

\* EnsureServerReady: cmd.Start, writeServerState and the goroutine on cmd.Wait
Spawn ==
    /\ srv.pc = "spawn"
    /\ \E started, written \in BOOLEAN :
          srv' = IF ~started
                 THEN [srv EXCEPT !.pc = "ensured", !.ret = "error"]
                 ELSE [srv EXCEPT !.pc = "wait_probe", !.child = "starting",
                                  !.log = Append(@, "spawn"),
                                  !.file = IF written
                                           THEN [DesiredState EXCEPT !.PID = 9]
                                           ELSE @]
    /\ UNCHANGED others

\* waitForServerReady: the probe at the head of the loop
WaitProbe ==
    /\ srv.pc = "wait_probe"
    /\ srv' = IF checkServerReady(srv)
              THEN [srv EXCEPT !.pc = "ensured", !.ret = "handle",
                               !.log = Append(@, "probe ok")]
              ELSE [srv EXCEPT !.pc = "wait_select"]
    /\ UNCHANGED others

\* waitForServerReady: the select on exitCh and the 300 ms; on the exit
\* EnsureServerReady closes the process and returns the error
WaitSelect ==
    /\ srv.pc = "wait_select"
    /\ srv' = IF srv.child = "exited"
              THEN [Close(srv, "clean") EXCEPT !.pc = "ensured", !.ret = "error"]
              ELSE [srv EXCEPT !.pc = "wait_deadline"]
    /\ UNCHANGED others

\* waitForServerReady: the test of the deadline at the foot of the loop
WaitDeadline ==
    /\ srv.pc = "wait_deadline"
    /\ \E outcome \in {"clean", "status", "hang"} :
          srv' = IF srv.elapsed
                 THEN [Close(srv, outcome) EXCEPT !.pc = "ensured", !.ret = "error"]
                 ELSE [srv EXCEPT !.pc = "wait_probe"]
    /\ UNCHANGED others

\* the spawned process comes to answer, or exits; the startup timeout elapses
ChildReady ==
    /\ srv.child = "starting"
    /\ srv' = [srv EXCEPT !.child = "ready", !.log = Append(@, "ready")]
    /\ UNCHANGED others

ChildExit ==
    /\ srv.child \in {"starting", "ready"}
    /\ srv.pc # "closed"
    /\ srv' = [srv EXCEPT !.child = "exited", !.log = Append(@, "exit")]
    /\ UNCHANGED others

DeadlinePasses ==
    /\ srv.pc \in {"wait_probe", "wait_select", "wait_deadline"}
    /\ ~srv.elapsed
    /\ srv' = [srv EXCEPT !.elapsed = TRUE, !.log = Append(@, "deadline")]
    /\ UNCHANGED others

\* main: llm.NewClient after EnsureServerReady, whatever it returned; without
\* a server url the one-shot client when model and command are found
NewClient ==
    /\ srv.pc = "ensured"
    /\ \E found \in BOOLEAN :
          srv' = [srv EXCEPT !.pc = "serving",
                             !.enabled = (srv.url # "" \/ (srv.model /\ found))]
    /\ UNCHANGED others

\* main returns: the deferred serverProcess.Close()
CloseHandle ==
    /\ srv.pc = "serving"
    /\ srv.ret = "handle"
    /\ \E outcome \in {"clean", "status", "hang"} :
          srv' = [Close(srv, outcome) EXCEPT !.pc = "closed"]
    /\ UNCHANGED others

\* main under every configuration, state file and server at the url
InitServer ==
    /\ memory = << >>
    /\ registry = << >>
    /\ mu = 0
    /\ llmKind = "client"
    /\ family = "scenario"
    /\ inv = [i \in Invocations |-> IdleInvocation]
    /\ reg = [pc |-> "idle", serverID |-> "", bots |-> << >>, count |-> 0]
    /\ iolog = {}
    /\ cfg = [pc |-> "serving", env |-> NoEnv, LLM |-> Load(NoEnv),
              LLMTimeout |-> Load(NoEnv).SoftTimeout]
    /\ \E url \in {"", "no host", DesiredState.URL}, model \in BOOLEAN,
          file \in StateFiles, old \in {"up", "down"} :
          srv = ServerStart(url, model, file, old)
    /\ es = NewElasticLogger(0)

NextServer ==
    \/ EnsureServerReady
    \/ restartRunningServer
    \/ Spawn
    \/ WaitProbe
    \/ WaitSelect
    \/ WaitDeadline
    \/ ChildReady
    \/ ChildExit
    \/ DeadlinePasses
    \/ NewClient
    \/ CloseHandle

SpecServer == InitServer /\ [][NextServer]_vars

\* the variables of the planner and of main
mainVars == <<memory, registry, mu, llmKind, family, inv, reg, iolog, cfg, srv>>

\* Enqueue: the send on the queue, or the default case when it is full
Enqueue ==
    /\ es.offered < MaxEntries
    /\ es' = IF QueueLen(es) < elasticLogChannelSize
             THEN [es EXCEPT !.offered = @ + 1, !.accepted = @ + 1]
             ELSE [es EXCEPT !.offered = @ + 1, !.dropped = @ + 1]
    /\ UNCHANGED mainVars

\* run leaving the queue as it is when the stop channel is closed
runStopNoDrain ==
    /\ es.worker = "select"
    /\ es.closer # "open"
    /\ es' = [es EXCEPT !.worker = "done"]
    /\ UNCHANGED mainVars

\* run: case <-l.stop of the outer select
runStop ==
    /\ es.worker = "select"
    /\ es.closer # "open"
    /\ es' = [es EXCEPT !.worker = "drain"]
    /\ UNCHANGED mainVars

\* run: case entry := <-l.queue, of the outer select and of the inner one
runReceive ==
    /\ es.worker \in {"select", "drain"}
    /\ QueueLen(es) > 0
    /\ es' = [es EXCEPT !.received = @ + 1,
                        !.worker = IF @ = "select" THEN "send" ELSE "drain_send"]
    /\ UNCHANGED mainVars

\* run: l.send(entry) returns
runSent ==
    /\ es.worker \in {"send", "drain_send"}
    /\ es' = [es EXCEPT !.sent = @ + 1,
                        !.worker = IF @ = "send" THEN "select" ELSE "drain"]
    /\ UNCHANGED mainVars

\* run: the default case of the inner select, return and wg.Done()
runReturn ==
    /\ es.worker = "drain"
    /\ QueueLen(es) = 0
    /\ es' = [es EXCEPT !.worker = "done"]
    /\ UNCHANGED mainVars

\* Close: close(l.stop)
CloseStop ==
    /\ es.closer = "open"
    /\ es' = [es EXCEPT !.closer = "waiting", !.atClose = es.accepted]
    /\ UNCHANGED mainVars

\* Close: l.wg.Wait() returns
CloseReturn ==
    /\ es.closer = "waiting"
    /\ es.worker = "done"
    /\ es' = [es EXCEPT !.closer = "returned"]
    /\ UNCHANGED mainVars

\* the logger with an empty queue, or with a backlog two short of full
InitElastic ==
    /\ memory = << >>
    /\ registry = << >>
    /\ mu = 0
    /\ llmKind = "disabled"
    /\ family = "cooldown"
    /\ inv = [i \in Invocations |-> IdleInvocation]
    /\ reg = [pc |-> "idle", serverID |-> "", bots |-> << >>, count |-> 0]
    /\ iolog = {}
    /\ cfg = [pc |-> "serving", env |-> NoEnv, LLM |-> Load(NoEnv),
              LLMTimeout |-> Load(NoEnv).SoftTimeout]
    /\ srv = [ServerStart("", FALSE, [DesiredState EXCEPT !.kind = "absent"], "down")
                 EXCEPT !.pc = "serving", !.ret = "nil"]
    /\ \E backlog \in {0, elasticLogChannelSize - 2} : es = NewElasticLogger(backlog)

NextElastic ==
    \/ Enqueue
    \/ runStop
    \/ runReceive
    \/ runSent
    \/ runReturn
    \/ CloseStop
    \/ CloseReturn

SpecElastic == InitElastic /\ [][NextElastic]_vars

-----------------------------------------------------------------------------
(* the properties *)

Started(i)  == inv[i].pc # "idle"
Finished(i) == inv[i].pc = "returned"

\* the absolute difference of two times
Apart(a, b) == IF a >= b THEN a - b ELSE b - a

\* C1: two Plan invocations on one Planner with identical requests (request
\* id, tick, time, bots, chat window, settings) and the same generator return
\* identical actions and identical debug output.
C1_Determinism ==
    \A i, j \in Invocations :
        (Finished(i) /\ Finished(j) /\ inv[i].req = inv[j].req)
            => inv[i].resp = inv[j].resp

C2_WitnessOpen ==
    \E i \in Invocations :
        /\ Finished(i)
        /\ inv[i].req.TimeMS = 15000
        /\ Len(inv[i].resp.Actions) = 1
        /\ \E k \in 1..Len(inv[i].checks) :
              /\ inv[i].checks[k].found
              /\ inv[i].checks[k].last = 0
              /\ ~inv[i].checks[k].suppress

\* C3: no two invocations whose request times are less than 15000 ms apart
\* both emit an action for the same (server, bot, detected topic).
C3_NoDoubleEmission ==
    \A i, j \in Invocations :
        (i # j /\ Started(i) /\ Started(j)
              /\ Apart(inv[i].req.TimeMS, inv[j].req.TimeMS) < 15000) =>
            \A k \in 1..Len(inv[i].emits) :
                \A m \in 1..Len(inv[j].emits) :
                    ~ /\ inv[i].emits[k].topic \in Topics
                      /\ inv[i].emits[k].topic = inv[j].emits[m].topic
                      /\ inv[i].emits[k].bot.BotID = inv[j].emits[m].bot.BotID
                      /\ ServerKey(inv[i].req.Server.ServerID)
                            = ServerKey(inv[j].req.Server.ServerID)

\* the bots of the request that pass filterAvailableBots and filterSelfReplyBots
Filtered(req) == filterSelfReplyBots(req, filterAvailableBots(req.Bots))

\* a message of the chat window holds a toxic keyword
ToxicWindow(req) ==
    LET recent == RecentWindow(req.Chat)
    IN  \E k \in 1..Len(recent) :
           ContainsAny(NormalizeText(recent[k].Message), toxicKeywords)

\* C4 as stated: a request with a toxic message in its window returns no
\* action, the strategy "toxic_silence", a suppressed count equal to the number
\* of bots that passed filtering, and writes nothing to the memory.
C4_ToxicSilence ==
    \A i \in Invocations :
        (Finished(i) /\ ToxicWindow(inv[i].req)) =>
            /\ inv[i].resp.Actions = << >>
            /\ inv[i].resp.Debug.ChosenStrategy = "toxic_silence"
            /\ inv[i].resp.Debug.SuppressedReplies = Len(Filtered(inv[i].req))
            /\ inv[i].writes = << >>

\* C4 amended: as C4, the strategy being "toxic_silence" when at least one bot
\* passed filtering and empty when none did.
C4_ToxicSilenceAvailable ==
    \A i \in Invocations :
        (Finished(i) /\ ToxicWindow(inv[i].req)) =>
            /\ inv[i].resp.Actions = << >>
            /\ inv[i].resp.Debug.ChosenStrategy =
                  (IF Len(Filtered(inv[i].req)) > 0 THEN "toxic_silence" ELSE "")
            /\ inv[i].resp.Debug.SuppressedReplies = Len(Filtered(inv[i].req))
            /\ inv[i].writes = << >>

\* a toxic window met two available bots, the greeting of the same window
\* leading the detected topics, and the response was the toxic silence
C4_Witness ==
    \E i \in Invocations :
        /\ Finished(i)
        /\ ToxicWindow(inv[i].req)
        /\ Len(Filtered(inv[i].req)) = 2
        /\ inv[i].topics = <<TopicGreeting, TopicToxic>>
        /\ inv[i].resp.Debug.ChosenStrategy = "toxic_silence"
        /\ inv[i].resp.Debug.SuppressedReplies = 2

\* an avoid-topics entry of the bot holds "pvp" in any letter case
AvoidsPvp(bot) ==
    \E k \in 1..Len(bot.Persona.AvoidTopics) :
        Contains(ToLower(bot.Persona.AvoidTopics[k]), <<"p","v","p">>)

\* C5: no action for the topic PVPInvite goes to a bot one of whose
\* avoid-topics entries holds "pvp" in any letter case, whatever the generator.
C5_NoPvpForAvoiders ==
    \A i \in Invocations :
        \A k \in 1..Len(inv[i].emits) :
            inv[i].emits[k].topic = TopicPVPInvite => ~AvoidsPvp(inv[i].emits[k].bot)

\* with a generator that returns texts, PVPInvite was detected, a bot avoiding
\* "No_PvP" was selected ahead of another bot, and only the other bot got the
\* pvp action
C5_Witness ==
    \E i \in Invocations :
        /\ Finished(i)
        /\ llmKind = "live"
        /\ inv[i].topics = <<TopicPVPInvite>>
        /\ Len(inv[i].selected) = 2
        /\ AvoidsPvp(inv[i].selected[1])
        /\ Len(inv[i].emits) = 1
        /\ inv[i].emits[1].topic = TopicPVPInvite
        /\ inv[i].emits[1].bot = inv[i].selected[2]

\* the settings C6 describes for the settings of a request
Normalized(s) ==
    LET min == IF s.MinDelayMS <= 0 THEN 800 ELSE s.MinDelayMS
    IN  [MaxActions |-> IF s.MaxActions <= 0 THEN 2 ELSE s.MaxActions,
         MinDelayMS |-> min,
         MaxDelayMS |-> IF s.MaxDelayMS <= min THEN min + 1200 ELSE s.MaxDelayMS,
         ReplyChance |-> IF s.ReplyChance <= 0 THEN 6 ELSE s.ReplyChance,
         GlobalSilenceChance |-> IF s.GlobalSilenceChance < 0 THEN 0
                                 ELSE IF s.GlobalSilenceChance > 10 THEN 10
                                 ELSE s.GlobalSilenceChance]

\* C6: the settings Plan works with are max-actions <= 0 -> 2, min-delay <= 0
\* -> 800, max-delay <= min-delay -> min-delay + 1200, reply-chance <= 0 -> 0.6,
\* silence-chance clamped to [0, 1], and the plan obeys them: on the topic path
\* no more actions than the normalized max-actions, every delay within the
\* normalized bounds.
C6_NormalizedSettings ==
    \A i \in Invocations :
        (Started(i) /\ Len(Filtered(inv[i].req)) > 0) =>
            LET e == Normalized(inv[i].req.Settings)
            IN  /\ inv[i].settings = e
                /\ inv[i].base = "heuristics" => Len(inv[i].actions) <= e.MaxActions
                /\ \A k \in 1..Len(inv[i].actions) :
                      /\ inv[i].actions[k].SendAfterMS >= e.MinDelayMS
                      /\ inv[i].actions[k].SendAfterMS <= e.MaxDelayMS

\* a request with max-actions 0 and three bots returned two actions
C6_Witness ==
    \E i \in Invocations :
        /\ Finished(i)
        /\ inv[i].req.Settings.MaxActions = 0
        /\ Len(Filtered(inv[i].req)) = 3
        /\ Len(inv[i].resp.Actions) = 2

\* the positions of the chat messages with the greatest timestamp
Greatest(chat) ==
    {m \in 1..Len(chat) :
        \A j \in 1..Len(chat) : chat[j].TimestampMS <= chat[m].TimestampMS}

\* bot is out of the filtered set of invocation i and has no action in it
Excluded(i, bot) ==
    /\ \A k \in 1..Len(inv[i].bots) : inv[i].bots[k] # bot
    /\ \A k \in 1..Len(inv[i].actions) : inv[i].actions[k].BotID # bot.BotID

\* C7 as stated: when a chat message with the greatest timestamp has
\* sender-type BOT (any case) and its sender equals a bot's id or name (any
\* case), that bot is out of the filtered set and gets no action, wherever the
\* message sits in the list.
C7_SelfReplyGuard ==
    \A i \in Invocations :
        Started(i) =>
            \A m \in Greatest(inv[i].req.Chat) :
                \A b \in 1..Len(inv[i].req.Bots) :
                    LET msg == inv[i].req.Chat[m]
                        bot == inv[i].req.Bots[b]
                    IN  (/\ EqualFold(msg.SenderType, <<"B","O","T">>)
                         /\ \/ EqualFold(msg.Sender, bot.BotID)
                            \/ EqualFold(msg.Sender, bot.Name))
                            => Excluded(i, bot)

\* C7 amended: the message is the last one in list order among those with the
\* greatest timestamp, and the sender is compared with a non-empty bot id and
\* a non-empty name only.
C7_SelfReplyGuardLast ==
    \A i \in Invocations :
        (Started(i) /\ Len(inv[i].req.Chat) > 0) =>
            LET chat == inv[i].req.Chat
                m    == CHOOSE g \in Greatest(chat) : \A h \in Greatest(chat) : h <= g
            IN  \A b \in 1..Len(inv[i].req.Bots) :
                    LET bot == inv[i].req.Bots[b]
                    IN  (/\ EqualFold(chat[m].SenderType, <<"B","O","T">>)
                         /\ \/ bot.BotID # << >> /\ EqualFold(chat[m].Sender, bot.BotID)
                            \/ bot.Name # << >> /\ EqualFold(chat[m].Sender, bot.Name))
                            => Excluded(i, bot)

\* the message with the greatest timestamp came first in the list and was a
\* bot's own, written in another letter case; the bot was left out and the
\* other bot answered
C7_Witness ==
    \E i \in Invocations :
        /\ Finished(i)
        /\ Len(inv[i].req.Chat) = 2
        /\ Greatest(inv[i].req.Chat) = {1}
        /\ EqualFold(inv[i].req.Chat[1].Sender, inv[i].req.Bots[1].Name)
        /\ inv[i].req.Chat[1].Sender # inv[i].req.Bots[1].Name
        /\ Excluded(i, inv[i].req.Bots[1])
        /\ Len(inv[i].resp.Actions) = 1
        /\ inv[i].resp.Actions[1].BotID = inv[i].req.Bots[2].BotID

\* C8: with an enabled generator whose Generate returns an error on every
\* call, no action has the reason "llm", and the strategy of every response
\* with actions ends in "_fallback".
C8_FailingGenerator ==
    \A i \in Invocations :
        (llmKind = "failing" /\ Finished(i)) =>
            /\ \A k \in 1..Len(inv[i].resp.Actions) :
                  inv[i].resp.Actions[k].Reason # "llm"
            /\ Len(inv[i].resp.Actions) > 0 =>
                  inv[i].resp.Debug.ChosenStrategy
                      \in {"heuristics_fallback", "small_talk_fallback"}

\* the generator failed on both calls of a plan and small talk alike, and the
\* response carries actions under a fallback strategy
C8_Witness ==
    \E i \in Invocations :
        /\ llmKind = "failing"
        /\ Finished(i)
        /\ Len(inv[i].calls) = 2
        /\ Len(inv[i].resp.Actions) = 2
        /\ inv[i].resp.Debug.ChosenStrategy = "heuristics_fallback"

\* C9: every Generate call that failed (error, timeout or empty text) is
\* followed by an action for the same bot and topic with a non-empty message
\* whose reason is a heuristic one.
C9_FallbackAction ==
    \A i \in Invocations :
        \A c \in 1..Len(inv[i].calls) :
            ~inv[i].calls[c].ok =>
                \E k \in 1..Len(inv[i].actions) :
                    /\ inv[i].emits[k].bot = inv[i].calls[c].bot
                    /\ inv[i].emits[k].topic = inv[i].calls[c].topic
                    /\ inv[i].actions[k].BotID = inv[i].calls[c].bot.BotID
                    /\ inv[i].actions[k].Message # << >>
                    /\ inv[i].actions[k].Reason # "llm"

\* one plan had a Generate call that brought a text and one that failed; its
\* response carries the delegated text and a heuristic message
C9_Witness ==
    \E i \in Invocations :
        /\ Finished(i)
        /\ Len(inv[i].calls) = 2
        /\ inv[i].calls[1].ok
        /\ ~inv[i].calls[2].ok
        /\ inv[i].resp.Debug.ChosenStrategy = "llm"
        /\ Len(inv[i].resp.Actions) = 2
        /\ inv[i].resp.Actions[1].Reason = "llm"
        /\ inv[i].resp.Actions[2].Reason # "llm"
        /\ inv[i].resp.Actions[2].Message # << >>

\* C10: every Plan invocation that was called returns a response for its
\* request, without holding the planner lock, however it interleaves with other
\* Plan invocations and with RegisterBots, every Generate call returning or
\* being cancelled at its deadline.
C10_PlanReturns ==
    /\ \A i \in Invocations : Started(i) ~> Finished(i)
    /\ [](\A i \in Invocations :
            Finished(i) => /\ mu # i
                           /\ inv[i].resp.RequestID = inv[i].req.RequestID
                           /\ inv[i].resp.Actions = inv[i].actions)

\* two invocations returned, one of them after a wait for the lock that
\* RegisterBots held, and RegisterBots returned too
C10_Witness ==
    /\ \A i \in Invocations : Finished(i)
    /\ reg.pc = "returned"
    /\ mu = 0
    /\ \E i \in Invocations : Len(inv[i].calls) > 0
    /\ \E i \in Invocations : Len(inv[i].writes) > 0

\* C11: a response never holds more actions than the normalized max-actions
\* of its request (2 when the request gives max-actions <= 0).
C11_ActionCap ==
    \A i \in Invocations :
        Finished(i) =>
            Len(inv[i].resp.Actions) <=
                (IF inv[i].req.Settings.MaxActions <= 0 THEN 2
                 ELSE inv[i].req.Settings.MaxActions)

\* two topics were detected for one selected bot under max-actions 1: two
\* slots were open and the response holds one action
C11_Witness ==
    \E i \in Invocations :
        /\ Finished(i)
        /\ inv[i].req.Settings.MaxActions = 1
        /\ Len(inv[i].topics) = 2
        /\ Len(inv[i].selected) = 1
        /\ inv[i].checks = << >> \/ ~inv[i].checks[1].suppress
        /\ Len(inv[i].resp.Actions) = 1

\* C12: the delay of every action lies within the normalized min-delay and
\* max-delay of its request, on the reply path and on the small-talk path.
C12_DelayBounds ==
    \A i \in Invocations :
        \A k \in 1..Len(inv[i].actions) :
            LET e == Normalized(inv[i].req.Settings)
            IN  /\ inv[i].actions[k].SendAfterMS >= e.MinDelayMS
                /\ inv[i].actions[k].SendAfterMS <= e.MaxDelayMS

\* one response on the reply path with unset delays and one on the small-talk
\* path each carry an action, the first with a delay drawn above 800
C12_Witness ==
    \E i, j \in Invocations :
        /\ Finished(i) /\ Finished(j)
        /\ inv[i].base = "heuristics"
        /\ inv[i].req.Settings.MinDelayMS = 0
        /\ Len(inv[i].resp.Actions) > 0
        /\ inv[i].resp.Actions[1].SendAfterMS > 800
        /\ inv[i].resp.Actions[1].SendAfterMS <= 2000
        /\ inv[j].base = "small_talk"
        /\ Len(inv[j].resp.Actions) = 1

\* bot is allowed an action in the request: online, not cooling down, and
\* kept by the self-reply guard
Allowed(i, bot) ==
    /\ \E b \in 1..Len(inv[i].req.Bots) : inv[i].req.Bots[b] = bot
    /\ bot.Online = TRUE
    /\ bot.CooldownMS <= 0
    /\ \E k \in 1..Len(Filtered(inv[i].req)) : Filtered(inv[i].req)[k] = bot

C14_OmittedOnlineActs ==
    \A i \in Invocations :
        (/\ Finished(i)
         /\ llmKind = "disabled"
         /\ Len(inv[i].req.Bots) = 1
         /\ inv[i].req.Bots[1].Online = FALSE
         /\ inv[i].req.Bots[1].CooldownMS = 0
         /\ inv[i].req.Settings.ReplyChance = 10
         /\ ContainsAny(NormalizeText(inv[i].req.Chat[1].Message), pvpKeywords))
            => /\ Len(inv[i].resp.Actions) = 1
               /\ inv[i].resp.Debug.ChosenStrategy = "heuristics"

\* invocation i met no entry of the cooldown memory, as on a fresh Planner
FreshMemory(i) ==
    \A k \in 1..Len(inv[i].checks) : ~inv[i].checks[k].found

\* the request of scenario A: one online bot with zero cooldown, the single
\* player message "siema", unset settings
ScenarioA(req) ==
    /\ Len(req.Bots) = 1
    /\ req.Bots[1].Online /\ req.Bots[1].CooldownMS = 0
    /\ Len(req.Chat) = 1
    /\ req.Chat[1].Message = <<"s","i","e","m","a">>
    /\ EqualFold(req.Chat[1].SenderType, <<"P","L","A","Y","E","R">>)
    /\ req.Settings = PlanSettings(0, 0, 0, 0, 0)

\* the response of scenario A: one greeting of the bot under "heuristics"
GreetingResponse(i) ==
    /\ Len(inv[i].resp.Actions) = 1
    /\ inv[i].resp.Actions[1].BotID = inv[i].req.Bots[1].BotID
    /\ inv[i].resp.Actions[1].Reason = "greeting"
    /\ inv[i].resp.Actions[1].Message # << >>
    /\ inv[i].resp.Debug.ChosenStrategy = "heuristics"

NoTopic(req) ==
    LET recent == RecentWindow(req.Chat)
    IN  \A k \in 1..Len(recent) :
           ~ContainsAny(NormalizeText(recent[k].Message),
                        toxicKeywords \o eventKeywords \o pvpKeywords
                            \o helpKeywords \o greetingKeywords)

\* the first draw of the random source of a request
FirstDraw(req) ==
    Float64(NewSeededRand(<<req.RequestID, Sprint(req.Tick), Sprint(req.TimeMS)>>), 0)

\* the response of the silence branch
SilenceResponse(i) ==
    /\ inv[i].resp.Actions = << >>
    /\ inv[i].resp.Debug.ChosenStrategy = "silence"
    /\ inv[i].resp.Debug.SuppressedReplies = 1

\* C16: for a request with an available bot and no detected topic the
\* response is the silence response exactly when the first draw is below the
\* normalized silence probability; with silence probability 1.0 it is the
\* silence response for every seed.
C16_Silence ==
    \A i \in Invocations :
        (Finished(i) /\ Len(Filtered(inv[i].req)) > 0 /\ NoTopic(inv[i].req)) =>
            /\ SilenceResponse(i) <=>
                  (FirstDraw(inv[i].req)
                      < Normalized(inv[i].req.Settings).GlobalSilenceChance)
            /\ inv[i].req.Settings.GlobalSilenceChance >= 10 => SilenceResponse(i)

\* an empty chat under silence probability 1.0 was met with silence, and a
\* chat without keywords under silence probability 0.5 and a first draw above
\* it was met with small talk
C16_Witness ==
    \E i, j \in Invocations :
        /\ Finished(i) /\ Finished(j)
        /\ inv[i].req.Chat = << >>
        /\ inv[i].req.Settings.GlobalSilenceChance = 10
        /\ Len(Filtered(inv[i].req)) > 0
        /\ SilenceResponse(i)
        /\ NoTopic(inv[j].req)
        /\ inv[j].req.Settings.GlobalSilenceChance = 5
        /\ FirstDraw(inv[j].req) >= 5
        /\ inv[j].resp.Debug.ChosenStrategy = "small_talk"
        /\ Len(inv[j].resp.Actions) = 1

\* C17: on the reply and small-talk paths chosen_strategy is the base label
\* exactly when the plan made no Generate call, the base label with "_fallback"
\* exactly when it made Generate calls and none brought a text, and "llm"
\* exactly when some Generate call brought a text, whatever became of the
\* other slots.
C17_StrategyLabel ==
    \A i \in Invocations :
        (Finished(i) /\ inv[i].base \in {"heuristics", "small_talk"}) =>
            LET label == inv[i].resp.Debug.ChosenStrategy
                calls == inv[i].calls
                some  == \E c \in 1..Len(calls) : calls[c].ok
            IN  /\ label = inv[i].base <=> calls = << >>
                /\ label = inv[i].base \o "_fallback" <=> (calls # << >> /\ ~some)
                /\ label = "llm" <=> some

\* a reply plan whose first Generate call failed and whose second brought a
\* text is labelled "llm" although its first action is a heuristic one
C17_Witness ==
    \E i \in Invocations :
        /\ Finished(i)
        /\ inv[i].base = "heuristics"
        /\ Len(inv[i].calls) = 2
        /\ ~inv[i].calls[1].ok
        /\ inv[i].calls[2].ok
        /\ inv[i].resp.Actions[1].Reason # "llm"
        /\ inv[i].resp.Actions[2].Reason = "llm"
        /\ inv[i].resp.Debug.ChosenStrategy = "llm"

\* the line normalizeLLMOutput has made of what the command printed when it
\* comes to its last test, and that line failing the test
NormalizedLine(output, botName) ==
    LET response == TrimSpace(output)
        rest     == IF HasPrefix(response, <<"O","U","T",":","\n">>)
                    THEN SubSeq(response, 6, Len(response)) ELSE response
        line     == TrimSpace(stripBotPrefix(stripQuotes(stripBotMarkers(
                        firstNonEmptyLine(TrimSpace(rest)))), botName))
    IN  TrimSpace(truncateRunes(line, 80))

StillForbidden(output, botName) ==
    /\ NormalizedLine(output, botName) # << >>
    /\ isForbiddenOutput(NormalizedLine(output, botName), botName)

\* C18: a Generate call of the llm.Client whose output, normalized, still
\* holds a quote, a "(bot)" marker or a leading self-name prefix does not
\* bring a text, and the plan holds for its bot and topic a heuristic message
\* with a reason other than "llm".
C18_ForbiddenOutputFails ==
    \A i \in Invocations :
        \A c \in 1..Len(inv[i].calls) :
            (llmKind = "client"
                /\ StillForbidden(inv[i].raws[c], inv[i].calls[c].bot.Name)) =>
                /\ ~inv[i].calls[c].ok
                /\ \E k \in 1..Len(inv[i].actions) :
                      /\ inv[i].emits[k].bot = inv[i].calls[c].bot
                      /\ inv[i].emits[k].topic = inv[i].calls[c].topic
                      /\ inv[i].actions[k].Message # << >>
                      /\ inv[i].actions[k].Reason # "llm"

\* C19: whenever config.Load accepts the environment with a positive hard
\* timeout, the soft timeout handed to the planner is strictly shorter than the
\* hard timeout.
C19_SoftBelowHard ==
    (cfg.pc = "serving" /\ cfg.LLM.Timeout > 0) => cfg.LLMTimeout < cfg.LLM.Timeout

\* C20: nothing is logged and no Generate call is under way in a task that
\* holds the planner lock, in shouldSuppress, remember and RegisterBots alike.
C20_NoIOUnderLock ==
    /\ \A e \in iolog : ~e.locked
    /\ \A i \in Invocations : inv[i].pc = "llm" => mu # i

\* the place of a topic in the canonical order
\* Greeting < PVPInvite < Event < Help < Toxic
Rank(topic) ==
    CASE topic = TopicGreeting  -> 1
      [] topic = TopicPVPInvite -> 2
      [] topic = TopicEvent     -> 3
      [] topic = TopicHelp      -> 4
      [] OTHER                  -> 5

\* C21: the topics detectTopics hands to a reply plan come by message count
\* descending, and topics of equal count in the canonical order.
C21_CanonicalOrder ==
    \A i \in Invocations :
        inv[i].base = "heuristics" =>
            \A a, b \in 1..Len(inv[i].topics) :
                a < b =>
                    LET ca == TopicCount(inv[i].req.Chat, inv[i].topics[a])
                        cb == TopicCount(inv[i].req.Chat, inv[i].topics[b])
                    IN  \/ ca > cb
                        \/ ca = cb /\ Rank(inv[i].topics[a]) < Rank(inv[i].topics[b])

\* the memory key of the k-th action invocation i appended
EmitKey(i, k) ==
    <<ServerKey(inv[i].req.Server.ServerID), inv[i].emits[k].bot.BotID,
      inv[i].emits[k].topic>>

\* C26: every memory entry (server, bot, topic) -> t comes from a Plan request
\* with time-ms t that appended an action for that bot and that topic (or
\* "small_talk") to its response.
C26_MemoryFromActions ==
    \A key \in DOMAIN memory :
        \E i \in Invocations :
            \E k \in 1..Len(inv[i].emits) :
                /\ EmitKey(i, k) = key
                /\ inv[i].req.TimeMS = memory[key]
                /\ inv[i].actions[k].BotID = key[2]

\* one plan wrote its action to the memory and a later plan of the same bot
\* and topic was suppressed and returned, the entry still being the first one
C26_Witness ==
    \E i, j \in Invocations :
        /\ Finished(i) /\ Finished(j)
        /\ Len(inv[i].emits) = 1
        /\ inv[j].emits = << >>
        /\ inv[j].suppressed = 1
        /\ inv[j].req.TimeMS # inv[i].req.TimeMS
        /\ EmitKey(i, 1) \in DOMAIN memory
        /\ memory[EmitKey(i, 1)] = inv[i].req.TimeMS

\* the slot invocation i stands at is vetoed by the persona of its bot
Vetoed(t) ==
    /\ t.pc \in {"ss_wait", "ss_held", "llm"}
    /\ shouldAvoidTopic(SlotTopic(t), SlotBot(t).Persona.AvoidTopics)

\* C27: no Generate call is made or under way for a bot whose persona vetoes
\* the topic, and the step that takes a plan past a vetoed slot appends no
\* action, draws nothing from the random source and leaves the
\* delegation-attempted flag as it was.
C27_VetoBeforeDelegation ==
    /\ [](\A i \in Invocations :
            /\ ~(inv[i].pc = "llm" /\ Vetoed(inv[i]))
            /\ \A c \in 1..Len(inv[i].calls) :
                  ~shouldAvoidTopic(inv[i].calls[c].topic,
                                    inv[i].calls[c].bot.Persona.AvoidTopics))
    /\ [][\A i \in Invocations :
            (inv[i].pc = "ss_held" /\ Vetoed(inv[i]) /\ inv'[i] # inv[i]) =>
                /\ inv'[i].actions = inv[i].actions
                /\ inv'[i].n = inv[i].n
                /\ inv'[i].attempted = inv[i].attempted
                /\ inv'[i].calls = inv[i].calls]_vars

\* under a generator that is enabled a plan went past a vetoed slot without a
\* Generate call and made its call for the next bot
C27_Witness ==
    \E i \in Invocations :
        /\ Finished(i)
        /\ Enabled(llmKind)
        /\ \E b \in 1..Len(inv[i].selected) :
              /\ shouldAvoidTopic(inv[i].topics[1], inv[i].selected[b].Persona.AvoidTopics)
              /\ \A c \in 1..Len(inv[i].calls) :
                    inv[i].calls[c].bot # inv[i].selected[b]
              /\ \A k \in 1..Len(inv[i].resp.Actions) :
                    inv[i].resp.Actions[k].BotID # inv[i].selected[b].BotID
        /\ Len(inv[i].calls) >= 1
        /\ inv[i].attempted

\* the last ten messages of a chat, and the first topic in the precedence
\* Toxic > Event > PVPInvite > Help > Greeting whose keywords a message holds
LastTen(chat) ==
    [k \in 1..(IF Len(chat) > 10 THEN 10 ELSE Len(chat)) |->
        chat[k + (IF Len(chat) > 10 THEN Len(chat) - 10 ELSE 0)]]

FirstTopic(message) ==
    LET text  == NormalizeText(message.Message)
        order == <<TopicToxic, TopicEvent, TopicPVPInvite, TopicHelp, TopicGreeting>>
        words == <<toxicKeywords, eventKeywords, pvpKeywords, helpKeywords,
                   greetingKeywords>>
        hits  == {p \in 1..5 : ContainsAny(text, words[p])}
    IN  IF hits = {} THEN "none"
        ELSE order[CHOOSE p \in hits : \A q \in hits : p <= q]

Counted(chat, topic) ==
    Cardinality({k \in 1..Len(LastTen(chat)) : FirstTopic(LastTen(chat)[k]) = topic})

\* C28: the topics of a plan are those counted over the last ten messages of
\* the chat, each message counting for the first topic of the precedence it
\* matches: with no such message the plan takes the empty-topics path, and
\* otherwise its topics are exactly the counted ones, each once, by count
\* descending.
C28_LastTenWindow ==
    \A i \in Invocations :
        (Started(i) /\ Len(Filtered(inv[i].req)) > 0) =>
            LET chat == inv[i].req.Chat
                hit  == {t \in Topics : Counted(chat, t) > 0}
                got  == inv[i].topics
            IN  IF hit = {}
                THEN inv[i].base # "heuristics" /\ got \in {<< >>, <<TopicNone>>}
                ELSE /\ {got[k] : k \in 1..Len(got)} = hit
                     /\ Len(got) = Cardinality(hit)
                     /\ \A a, b \in 1..Len(got) :
                           a < b => Counted(chat, got[a]) >= Counted(chat, got[b])

\* a chat of eleven messages whose first is toxic was answered with a greeting:
\* the plan saw the greetings and the question of the last ten only
C28_Witness ==
    \E i \in Invocations :
        /\ Finished(i)
        /\ Len(inv[i].req.Chat) = 11
        /\ FirstTopic(inv[i].req.Chat[1]) = TopicToxic
        /\ inv[i].topics = <<TopicGreeting, TopicHelp>>
        /\ Len(inv[i].resp.Actions) = 1
        /\ inv[i].resp.Actions[1].Reason \in {"greeting", "llm"}

\* C29: a slot is suppressed only by an emission recorded under its own key
\* (server id, bot id, topic), where the server id "" is the server "default":
\* the entry that suppressed it was written by a plan that emitted for that
\* very key, no key holds an empty server id, and every emission is found in
\* the memory under its key.
C29_SuppressionKey ==
    \A i \in Invocations :
        /\ \A c \in 1..Len(inv[i].checks) :
              LET check == inv[i].checks[c]
              IN  /\ check.key[1] # ""
                  /\ (inv[i].req.Server.ServerID \in {"", "default"})
                        <=> check.key[1] = "default"
                  /\ check.suppress =>
                        \E j \in Invocations :
                            \E k \in 1..Len(inv[j].emits) :
                                /\ EmitKey(j, k) = check.key
                                /\ inv[j].req.TimeMS = check.last
                                /\ inv[j].req.Server.ServerID \in
                                      (IF check.key[1] = "default"
                                       THEN {"", "default"} ELSE {check.key[1]})
        /\ \A w \in 1..Len(inv[i].writes) :
              /\ inv[i].writes[w] \in DOMAIN memory
              /\ inv[i].writes[w][1] # ""

\* a plan for the server "default" emitted a greeting of one bot; a plan for
\* the server "" then had the same bot suppressed on the greeting, and emitted
\* for the same bot on another topic and for another bot on the greeting
C29_Witness ==
    \E i, j \in Invocations :
        /\ Finished(i) /\ Finished(j)
        /\ inv[i].req.Server.ServerID = "default"
        /\ inv[j].req.Server.ServerID = ""
        /\ Len(inv[i].emits) = 1
        /\ \E c \in 1..Len(inv[j].checks) :
              /\ inv[j].checks[c].suppress
              /\ inv[j].checks[c].key = EmitKey(i, 1)
              /\ inv[j].checks[c].last = inv[i].req.TimeMS
        /\ \E k \in 1..Len(inv[j].emits) :
              /\ inv[j].emits[k].bot = inv[i].emits[1].bot
              /\ inv[j].emits[k].topic # inv[i].emits[1].topic
        /\ \E k \in 1..Len(inv[j].emits) :
              /\ inv[j].emits[k].bot # inv[i].emits[1].bot
              /\ inv[j].emits[k].topic = inv[i].emits[1].topic

\* the request takes the empty-topics path and its silence roll fails
SmallTalkPath(req) ==
    /\ Len(Filtered(req)) > 0
    /\ NoTopic(req)
    /\ FirstDraw(req) >= Normalized(req.Settings).GlobalSilenceChance

\* C30: a plan on the empty-topics path whose silence roll failed chose one
\* bot of the filtered ones; its response holds at most one action, of that
\* bot and with reason "small_talk" or "llm", and suppressed_replies 0; and
\* with an action the memory holds for (server, bot, "small_talk") the time-ms
\* of the request, or that of another plan that emitted for the same key.
C30_SmallTalk ==
    \A i \in Invocations :
        (Finished(i) /\ SmallTalkPath(inv[i].req)) =>
            LET req  == inv[i].req
                acts == inv[i].resp.Actions
                key  == <<ServerKey(req.Server.ServerID), inv[i].selected[1].BotID,
                          "small_talk">>
            IN  /\ Len(inv[i].selected) = 1
                /\ \E b \in 1..Len(Filtered(req)) : Filtered(req)[b] = inv[i].selected[1]
                /\ Len(acts) <= 1
                /\ inv[i].resp.Debug.SuppressedReplies = 0
                /\ Len(acts) = 1 =>
                      /\ acts[1].BotID = inv[i].selected[1].BotID
                      /\ acts[1].Reason \in {"small_talk", "llm"}
                      /\ key \in DOMAIN memory
                      /\ \E j \in Invocations :
                            /\ memory[key] = inv[j].req.TimeMS
                            /\ \E k \in 1..Len(inv[j].emits) : EmitKey(j, k) = key

\* a request with two available bots and a chat without keywords was
\* answered with the small talk of one of them, which the memory holds
C30_Witness ==
    \E i \in Invocations :
        /\ Finished(i)
        /\ SmallTalkPath(inv[i].req)
        /\ Len(Filtered(inv[i].req)) = 2
        /\ Len(inv[i].resp.Actions) = 1
        /\ inv[i].resp.Actions[1].Reason = "small_talk"
        /\ inv[i].resp.Actions[1].BotID = inv[i].selected[1].BotID
        /\ memory[<<ServerKey(inv[i].req.Server.ServerID),
                    inv[i].selected[1].BotID, "small_talk">>] = inv[i].req.TimeMS


\* the place of the first event e in the log of main, 0 when it is not there
Place(e) ==
    IF \E k \in 1..Len(srv.log) : srv.log[k] = e
    THEN CHOOSE k \in 1..Len(srv.log) :
             srv.log[k] = e /\ \A j \in 1..(k - 1) : srv.log[j] # e
    ELSE 0

\* EnsureServerReady ran with a url and a model and its first probe succeeded
ProbedHealthy ==
    /\ srv.pc # "start"
    /\ srv.url = DesiredState.URL
    /\ srv.model
    /\ srv.was.old = "up"

SameRecord ==
    /\ srv.was.file.kind = "state"
    /\ srv.was.file.URL = DesiredState.URL
    /\ srv.was.file.Command = DesiredState.Command
    /\ srv.was.file.Args = DesiredState.Args

\* the file holds no record equal to the desired configuration: it is absent,
\* holds no readable record, or holds another url, command or args
RecordDiffers ==
    \/ srv.was.file.kind \in {"absent", "unreadable"}
    \/ srv.was.file.kind = "state" /\ ~SameRecord

\* C22: when the first probe succeeds, a state record equal to the desired
\* configuration in url, command and args makes EnsureServerReady return with
\* no server stopped and no process spawned; with the record absent or
\* different it never returns the server as managed, and it spawns only after
\* the running server was stopped
C22_DecideByRecord ==
    ProbedHealthy =>
        /\ SameRecord =>
               /\ srv.ret = "nil"
               /\ Place("stop") = 0 /\ Place("spawn") = 0
               /\ srv.child = "none" /\ srv.old = "up"
        /\ RecordDiffers =>
               /\ srv.ret # "nil"
               /\ srv.child # "none" =>
                      (0 < Place("stop") /\ Place("stop") < Place("spawn")
                         /\ srv.old = "down")

\* C23: once Close has returned on the process the supervisor spawned, the
\* process was sent the interrupt, was killed when it did not exit in the
\* grace period, and the state file is gone
C23_CloseCleansUp ==
    srv.pc = "closed" =>
        /\ Place("signal") > 0
        /\ srv.child \in {"exited", "killed"}
        /\ srv.file.kind = "absent"

\* C24: after an error of EnsureServerReady the generator handed to the
\* planner is not enabled
C24_ErrorDisablesDelegation ==
    (srv.pc = "serving" /\ srv.ret = "error") => ~srv.enabled

Slots(t) ==
    [k \in 1..(Len(t.topics) * Len(t.selected)) |->
        [topic |-> t.topics[((k - 1) \div Len(t.selected)) + 1],
         bot   |-> t.selected[((k - 1) % Len(t.selected)) + 1]]]

\* the place in checks of the shouldSuppress call of the k-th visit: the calls
\* with an empty bot id return before the lock and leave no check
CheckOf(t, k) == Cardinality({j \in 1..k : t.visits[j].bot.BotID # << >>})

\* the invocation went through the reply loops and returned
RepliedAndReturned(i) == inv[i].pc = "returned" /\ inv[i].base = "heuristics"

\* C31: on the reply path suppressed_replies is the number of slots visited
\* that shouldSuppress vetoed; a slot the persona avoids is not counted; and
\* the slots are visited one after the other with none left out, up to the
\* end or to the action that reaches max-actions
C31_SuppressedCount ==
    \A i \in Invocations :
        RepliedAndReturned(i) =>
            LET t == inv[i]
                v == t.visits
            IN  /\ t.resp.Debug.SuppressedReplies =
                       Cardinality({k \in 1..Len(v) : v[k].out = "suppressed"})
                /\ Len(v) <= Len(Slots(t))
                /\ \A k \in 1..Len(v) :
                       /\ v[k].topic = Slots(t)[k].topic
                       /\ v[k].bot = Slots(t)[k].bot
                       /\ v[k].out = "suppressed" <=>
                              \/ v[k].bot.BotID = << >>
                              \/ t.checks[CheckOf(t, k)].suppress
                       /\ v[k].out = "avoided" =>
                              shouldAvoidTopic(v[k].topic, v[k].bot.Persona.AvoidTopics)
                /\ Len(v) < Len(Slots(t)) =>
                       /\ Len(t.resp.Actions) = t.settings.MaxActions
                       /\ v[Len(v)].out = "action"

\* a response on the reply path in which a slot was vetoed by the memory, a
\* slot was skipped for the persona, and a later slot still got its action
C31_Witness ==
    \E i \in Invocations :
        /\ RepliedAndReturned(i)
        /\ \E a, b, c \in 1..Len(inv[i].visits) :
              /\ a < c /\ b < c
              /\ inv[i].visits[a].out = "suppressed"
              /\ inv[i].visits[b].out = "avoided"
              /\ inv[i].visits[c].out = "action"
        /\ inv[i].resp.Debug.SuppressedReplies = 1


\* the slot that got the j-th action of a plan: the j-th visit that ended in
\* an action
ActionAt(t, j) ==
    CHOOSE k \in 1..Len(t.visits) :
        /\ t.visits[k].out = "action"
        /\ Cardinality({m \in 1..k : t.visits[m].out = "action"}) = j

\* C32: the actions of a response stand in the order of the slots, topic
\* after topic and under a topic bot after bot; the memory is written in that
\* order, each action before the next one is appended; and the random stream
\* only moves forward, in the steps that go through the slots
C32_SlotOrder ==
    /\ [](\A i \in Invocations :
            inv[i].base = "heuristics" =>
                LET t == inv[i]
                IN  /\ \A j \in 1..Len(t.actions) :
                           /\ t.actions[j].BotID = Slots(t)[ActionAt(t, j)].bot.BotID
                           /\ t.emits[j].topic = Slots(t)[ActionAt(t, j)].topic
                           /\ t.emits[j].bot = Slots(t)[ActionAt(t, j)].bot
                    /\ \A a, b \in 1..Len(t.actions) :
                           a < b => ActionAt(t, a) < ActionAt(t, b)
                    /\ Len(t.writes) <= Len(t.emits)
                    /\ Len(t.emits) <= Len(t.writes) + 1
                    /\ \A j \in 1..Len(t.writes) : t.writes[j] = EmitKey(i, j))
    /\ [][\A i \in Invocations :
            inv[i].pc # "idle" =>
                /\ inv'[i].n >= inv[i].n
                /\ inv'[i].n # inv[i].n => Len(inv'[i].visits) > Len(inv[i].visits)
                /\ Len(inv'[i].visits) >= Len(inv[i].visits)
                /\ \A k \in 1..Len(inv[i].visits) :
                       inv'[i].visits[k] = inv[i].visits[k]]_vars

\* a response with an action under each of two topics, a slot between them
\* having been skipped
C32_Witness ==
    \E i \in Invocations :
        /\ RepliedAndReturned(i)
        /\ Len(inv[i].resp.Actions) = 2
        /\ Len(inv[i].emits) = 2
        /\ Len(inv[i].topics) = 2
        /\ inv[i].emits[1].topic = inv[i].topics[1]
        /\ inv[i].emits[2].topic = inv[i].topics[2]
        /\ Len(inv[i].writes) = 2
        /\ ActionAt(inv[i], 2) = 3


\* EnsureServerReady found a server answering and a record that is absent or
\* holds another configuration, and is past the stop
RestartDone ==
    /\ ProbedHealthy
    /\ srv.was.file.kind = "absent" \/ (srv.was.file.kind = "state" /\ ~SameRecord)
    /\ srv.pc # "restart"

PidKnown == srv.was.file.kind = "state" /\ srv.was.file.PID # 0

C37_NoSpawnBesideServer ==
    /\ Place("spawn") > 0 =>
           \/ srv.was.old = "down" /\ Place("stop") = 0
           \/ srv.was.old = "up" /\ 0 < Place("stop") /\ Place("stop") < Place("spawn")
    /\ srv.child # "none" => (srv.old = "down" /\ Place("spawn") > 0)
    /\ srv.pc \in {"spawn", "wait_probe", "wait_select", "wait_deadline"} =>
           srv.old = "down"

\* a server answered, its record had no pid, it stopped at the shutdown
\* request, and the new process was spawned and came to answer
C37_Witness ==
    /\ srv.was.old = "up"
    /\ ~PidKnown
    /\ Place("shutdown request") = 1 /\ Place("stop") = 2 /\ Place("spawn") = 3
    /\ srv.ret = "handle"


\* C39: when EnsureServerReady returns an error after it spawned a process,
\* that process runs no more and the state file holds no record of it
C39_FailedStartLeavesNothing ==
    (srv.ret = "error" /\ Place("spawn") > 0) =>
        /\ srv.child \in {"exited", "killed"}
        /\ ~(srv.file.kind = "state" /\ srv.file.PID = 9)


\* the random source of invocation i differs between this state and the next
DrawsMoved(i) == inv'[i].n # inv[i].n \/ inv'[i].seed # inv[i].seed

\* C34: the random source of a Plan call is seeded from the request id, the
\* tick and the time of its own request, and it moves only in the steps of
\* that call: no step of another call draws from it
C34_RequestLocalRand ==
    /\ [](\A i \in Invocations :
            inv[i].pc # "idle" =>
                inv[i].seed = NewSeededRand(<<inv[i].req.RequestID,
                                              Sprint(inv[i].req.Tick),
                                              Sprint(inv[i].req.TimeMS)>>))
    /\ [][\A i \in Invocations :
            DrawsMoved(i) =>
                /\ inv[i].pc # "returned"
                /\ \A j \in Invocations \ {i} : inv'[j] = inv[j]]_vars

\* two calls of the same request, and so of equal seeds, are in flight at
\* different positions of their streams
C34_Witness ==
    \E i, j \in Invocations :
        /\ i # j
        /\ inv[i].pc \notin {"idle", "returned"}
        /\ inv[j].pc \notin {"idle", "returned"}
        /\ inv[i].seed = inv[j].seed
        /\ inv[i].n > inv[j].n
        /\ inv[j].n > 0


\* what a result of normalizeLLMOutput for a raw output and a bot name has to
\* be: the sentinel, or a text that is not empty, has no quote and no "(bot)"
\* marker, does not start with the name and a colon, has at most 80
\* characters, and is made of whole characters of the first non-empty line
NormalizedText(out, output, botName) ==
    \/ out = SilenceToken
    \/ /\ out # << >>
       /\ \A k \in 1..Len(out) : out[k] \notin {"\"", "'"}
       /\ ~Contains(ToLower(out), <<"(","b","o","t",")">>)
       /\ botName # << >> => ~HasPrefix(ToLower(out), ToLower(botName) \o <<":">>)
       /\ Len(out) <= 80
       /\ \A k \in 1..Len(out) :
              \E m \in 1..Len(firstNonEmptyLine(output)) :
                  out[k] = firstNonEmptyLine(output)[m]

\* C35: for every output of the command and every bot name normalizeLLMOutput
\* returns the sentinel or such a text, and never the empty string
C35_NormalizedOutput ==
    \A i \in Invocations :
        \A c \in 1..Len(inv[i].calls) :
            llmKind = "client" =>
                NormalizedText(normalizeLLMOutput(inv[i].raws[c], inv[i].calls[c].bot.Name),
                               inv[i].raws[c], inv[i].calls[c].bot.Name)


\* C40: Enqueue is one step whatever the queue holds: with the queue full the
\* entry is dropped and the queue is as it was, else the queue accepts it; and
\* when Close has returned every entry accepted before Close was called has
\* been sent and the worker has stopped
C40_EnqueueAndClose ==
    /\ [](es.closer = "returned" =>
             /\ es.sent >= es.atClose
             /\ es.worker = "done")
    /\ [](QueueLen(es) <= elasticLogChannelSize
             /\ es.sent <= es.received /\ es.received <= es.accepted)
    /\ [][es'.offered # es.offered =>
             /\ es'.received = es.received /\ es'.sent = es.sent
             /\ IF QueueLen(es) = elasticLogChannelSize
                THEN es'.accepted = es.accepted /\ es'.dropped = es.dropped + 1
                ELSE es'.accepted = es.accepted + 1 /\ es'.dropped = es.dropped]_vars

\* an entry was dropped at the full queue, and Close returned after the
\* worker had sent the 512 entries accepted before it
C40_Witness ==
    /\ es.dropped > 0
    /\ es.closer = "returned"
    /\ es.atClose = elasticLogChannelSize
    /\ es.sent = es.atClose


\* what Plan read on the way of invocation i: the request, the topics in the
\* order of the classifier, what every shouldSuppress call answered and what
\* every Generate call printed
PlanInputs(i) ==
    [req |-> inv[i].req, topics |-> inv[i].topics,
     hits |-> [k \in 1..Len(inv[i].checks) |-> inv[i].checks[k].suppress],
     raws |-> inv[i].raws]

\* C36: two plans that read the same request, topics, memory answers and
\* generator outputs return the same response, whatever RegisterBots did
\* before or between their steps; no step of RegisterBots changes the cooldown
\* memory or a plan; and RegisterBots returns the number of the bots submitted
\* with a bot id
C36_RegistryApart ==
    /\ [](\A i, j \in Invocations :
            (Finished(i) /\ Finished(j) /\ PlanInputs(i) = PlanInputs(j)) =>
                inv[i].resp = inv[j].resp)
    /\ [](reg.pc = "returned" =>
            reg.count = Cardinality({k \in 1..Len(reg.bots) : reg.bots[k].BotID # << >>}))
    /\ [][(reg' # reg \/ registry' # registry) =>
             (memory' = memory /\ inv' = inv)]_vars

\* RegisterBots stored one of two bots for the server "default", a plan for
\* that bot on that server returned its action, and a second plan that met
\* the same answers returned the same response
C36_Witness ==
    /\ reg.pc = "returned" /\ reg.count = 1 /\ Len(reg.bots) = 2
    /\ <<"default", Kuba.BotID>> \in DOMAIN registry
    /\ \E i, j \in Invocations :
          /\ i # j
          /\ Finished(i) /\ Finished(j)
          /\ PlanInputs(i) = PlanInputs(j)
          /\ Len(inv[i].resp.Actions) = 1
          /\ inv[i].resp.Actions[1].BotID = Kuba.BotID
          /\ DOMAIN memory # {}


\* C38: in a response that went through the reply loops no two actions belong
\* to the same bot id under the same topic, the request naming a bot id twice
\* included and whatever other requests do in between
C38_OneActionPerBotAndTopic ==
    \A i \in Invocations :
        RepliedAndReturned(i) =>
            \A a, b \in 1..Len(inv[i].resp.Actions) :
                (/\ a < b
                 /\ inv[i].resp.Actions[a].BotID = inv[i].resp.Actions[b].BotID)
                    => inv[i].emits[a].topic # inv[i].emits[b].topic

====
